---- MODULE Spec2Model ----
(***************************************************************************)
(* Model of the anki-doc-master pipeline (backend/src): the filesystem     *)
(* output store of one document, the five stage services that read and    *)
(* write it, and the tracking ledgers that make a stage resumable.         *)
(*                                                                         *)
(* One document is modelled.  The store is the directory tree             *)
(*   outputs/{document}/latest.json                                        *)
(*   outputs/{document}/{analysis_id}/...                                  *)
(* A service invocation is a sequence of steps, one per store write or     *)
(* gateway call, so that a process termination (Kill) can fall between any *)
(* two writes.                                                             *)
(***************************************************************************)
EXTENDS Integers, Sequences, FiniteSets, TLC

(* ------------------------------ bounds --------------------------------- *)
MaxRuns == 2
MaxItems == 2
MaxIds == 2

(* --------------------------- program constants ------------------------- *)
AllModules == {"themes", "vocabulary", "images_list", "images_descriptions",
               "tables", "math_formulas", "code"}
VALID_CARD_TYPES == {"basic", "cloze"}
EXCLUDED_MODULES_DEFAULT == {"images_list", "images_descriptions"}

(* ------------------------- inputs of the model ------------------------- *)
\* The module lists an analysis may detect (order is the processing order).
DetectedChoices == {<<>>, <<"themes">>, <<"themes", "vocabulary">>}
ModuleSet == {"themes", "vocabulary", "images_list"}
Runs == 1..MaxRuns
Ids == 1..MaxIds
EmptyId == 0
NoRun == 0

None == <<>>
Some(x) == <<x>>
IsSome(o) == o /= <<>>
Val(o) == o[1]

VARIABLES
  latest,   \* latest.json of the document: an analysis id, or NoRun when the file is absent
  fs,       \* fs[r]: content of the directory outputs/{document}/{r}
  nruns,    \* number of analysis ids generated so far (uuid: never reused)
  nids,     \* number of stage-output ids generated so far (uuid: never reused)
  pc,       \* position of the running invocation, "idle" between invocations
  inv,      \* arguments and local variables of the running invocation
  ret,      \* outcome of the invocation that ended last
  obs,      \* observation of the current/last invocation (history only)
  env,      \* the environment of the run: which operations callers invoke,
            \* which of them meet gateway faults and process terminations,
            \* and how many analyses are made (never changes)
  gw,       \* the gateway object of the process (ClaudeSessionAdapter): its
            \* session id and current attachment, and the last call it made
  probe     \* a pure function under examination: its input and its outcome

vars == <<latest, fs, nruns, nids, pc, inv, ret, obs, env, gw, probe>>

(* ------------------------------ the store ------------------------------ *)
NoCounts == [m \in ModuleSet |-> 0]

EmptyCards ==
  [cardsDir |-> FALSE,
   gmeta |-> [c \in VALID_CARD_TYPES |-> None],
   gtrack |-> [c \in VALID_CARD_TYPES |-> None],
   gcards |-> [c \in VALID_CARD_TYPES |-> NoCounts],
   optDir |-> FALSE,
   ometa |-> [c \in VALID_CARD_TYPES |-> None],
   otrack |-> [c \in VALID_CARD_TYPES |-> None],
   ocards |-> [c \in VALID_CARD_TYPES |-> NoCounts],
   ankiDir |-> FALSE,
   fmeta |-> [c \in VALID_CARD_TYPES |-> None],
   ffile |-> [c \in VALID_CARD_TYPES |-> None]]

EmptyRun ==
  [analysis |-> None, rmeta |-> None, rtrack |-> None, ritems |-> NoCounts,
   cards |-> EmptyCards]

\* A ledger entry as update_module_status / _init_tracking write it.
Entry(s, n, e) == [status |-> s, count |-> n, error |-> e]
PendingEntry == Entry("pending", 0, "")

SeqToSet(s) == {s[i] : i \in 1..Len(s)}

RECURSIVE FilterSeq(_, _)
\* [m for m in s if m in keep]
FilterSeq(s, keep) ==
  IF s = <<>> THEN <<>>
  ELSE IF Head(s) \in keep THEN <<Head(s)>> \o FilterSeq(Tail(s), keep)
       ELSE FilterSeq(Tail(s), keep)

\* _get_latest_analysis_id
GetLatestAnalysisId == latest

\* _get_analysis_path(document_id, analysis_id=None): the run the storage resolves to
GetAnalysisPath(aid) == IF aid = NoRun THEN GetLatestAnalysisId ELSE aid

\* JsonFileAnalysisStorage.find_by_id
AnalysisFindById(aid) ==
  IF aid \in Runs /\ IsSome(fs[aid].analysis) THEN fs[aid].analysis ELSE None

\* JsonRestructuredStorage.get_tracking(document_id)
RGetTracking == IF latest = NoRun THEN None ELSE fs[latest].rtrack

\* A faulty variant of RGetMetadata: the metadata file is never found.
RGetMetadataNotFound == None

\* JsonRestructuredStorage.get_restructuration_metadata(document_id)
RGetMetadata == IF latest = NoRun THEN None ELSE fs[latest].rmeta

\* JsonRestructuredStorage.exists_for_document
RExistsForDocument == IsSome(RGetMetadata)

\* JsonRestructuredStorage.find_by_id: scans every restructuration.json
RFindById(id) ==
  LET hits == {r \in Runs : IsSome(fs[r].rmeta) /\ Val(fs[r].rmeta).id = id}
  IN IF hits = {} THEN None ELSE fs[CHOOSE r \in hits : TRUE].rmeta

\* A faulty variant of CompletedModules: failed modules count as done too.
CompletedOrFailedModules(track) ==
  IF IsSome(track)
  THEN {m \in DOMAIN Val(track).modules :
          Val(track).modules[m].status \in {"completed", "failed"}}
  ELSE {}

\* completed_modules of a ledger
CompletedModules(track) ==
  IF IsSome(track)
  THEN {m \in DOMAIN Val(track).modules : Val(track).modules[m].status = "completed"}
  ELSE {}

\* _init_tracking
InitTracking(modules) ==
  [modules |-> [m \in SeqToSet(modules) |-> PendingEntry], session_id |-> None]

\* _create_empty_tracking
CreateEmptyTracking ==
  [modules |-> [m \in {} |-> PendingEntry], session_id |-> None]

\* update_module_status applied to a ledger (None = no tracking file)
UpdateModuleStatus(track, module, status, count, error) ==
  LET t == IF IsSome(track) THEN Val(track) ELSE CreateEmptyTracking
      dom == (DOMAIN t.modules) \cup {module}
  IN [t EXCEPT !.modules =
        [m \in dom |-> IF m = module THEN Entry(status, count, error)
                       ELSE t.modules[m]]]

(* ----------------------------- environments ---------------------------- *)
Stages == {"restructure", "generate", "optimize", "format"}

\* An environment of the pipeline.  ops: the operations callers invoke;
\* forced: those they may invoke with force=true; faulty: the operations
\* during which the gateway may fail or answer badly; killed: the operations
\* during which the process may be terminated; runs: the number of analyses
\* made of the document; cts: the card types callers pass; detected: the
\* module lists the analysis answers may hold; sizes[op]: the numbers of
\* items or cards the gateway's answers to op may hold; missing: the prompts
\* the prompt store lacks, each a pair of the stage that asks for it and
\* "system" or a module (none unless the environment says so); gateway: the
\* gateway variant the services are given, "cli" (ClaudeCliAdapter, no
\* session) unless the environment says "session" (ClaudeSessionAdapter).
\* The modules argument of generate_cards (list[str] | None): no list, or a
\* list
ModulesInputs == {None, Some(<<"vocabulary">>)}

Env(ops, forced, faulty, killed, runs, cts, detected, sizes) ==
  [ops |-> ops, forced |-> forced, faulty |-> faulty, killed |-> killed,
   runs |-> runs, cts |-> cts, detected |-> detected, sizes |-> sizes,
   missing |-> {}, gateway |-> "cli", modules |-> ModulesInputs]

AnySize == 0..MaxItems
Sizes(r, g, o, f) ==
  [restructure |-> r, generate |-> g, optimize |-> o, format |-> f]

EnvRestructureFaults ==
  Env({"analyze", "restructure", "delete_restructuration"},
      {"analyze", "restructure"}, {"restructure"}, {}, 1, {},
      DetectedChoices, Sizes(AnySize, {}, {}, {}))
EnvRestructureKilled ==
  Env({"analyze", "restructure", "delete_restructuration"},
      {"analyze", "restructure"}, {}, {"restructure", "delete_restructuration"},
      1, {}, DetectedChoices, Sizes(AnySize, {}, {}, {}))
EnvRuns ==
  Env({"analyze", "restructure", "delete_restructuration"},
      {"analyze", "restructure"}, {}, {}, MaxRuns, {},
      DetectedChoices, Sizes(AnySize, {}, {}, {}))
EnvGenerateFaults ==
  Env({"analyze", "restructure", "generate", "delete_generation"},
      {"generate"}, {"generate"}, {}, 1, {"basic", "image"},
      DetectedChoices, Sizes({0, 1}, AnySize, {}, {}))
EnvGenerateKilled ==
  Env({"analyze", "restructure", "generate", "delete_generation"},
      {"generate"}, {}, {"generate", "delete_generation"}, 1, {"basic", "image"},
      DetectedChoices, Sizes({0, 1}, AnySize, {}, {}))
EnvOptimizeFaults ==
  Env({"analyze", "restructure", "generate", "optimize"},
      {"optimize"}, {"optimize"}, {}, 1, {"basic"},
      {<<"themes", "vocabulary">>}, Sizes({1}, {0, 1}, AnySize, {}))
EnvFormatFaults ==
  Env({"analyze", "restructure", "generate", "optimize", "format"},
      {"format"}, {"format"}, {}, 1, {"basic"},
      {<<"themes">>}, Sizes({1}, {1}, {0, 1}, AnySize))
EnvRunsAllStages ==
  Env({"analyze", "restructure", "generate", "optimize", "format"},
      {"analyze"}, {}, {}, MaxRuns, {"cloze"},
      {<<"themes">>}, Sizes({1}, {1}, {1}, {1}))

EnvAnalysisDeleted ==
  Env({"analyze", "delete_analysis", "restructure", "generate"},
      {"analyze"}, {}, {}, MaxRuns, {"basic"},
      {<<"themes">>}, Sizes({1}, {1}, {}, {}))

\* The gateway lists names outside the module enumeration
EnvOutsideNames ==
  Env({"analyze", "restructure"}, {"analyze"}, {}, {}, MaxRuns, {},
      {<<"appendix", "themes">>, <<"appendix">>, <<"themes", "appendix", "vocabulary">>},
      Sizes({1}, {}, {}, {}))

\* The document has images: generate_cards with no list, an empty list, and
\* lists naming the image module
EnvImages ==
  [Env({"analyze", "restructure", "generate"}, {"generate"}, {}, {}, 1, {"basic"},
       {<<"themes", "images_list">>, <<"images_list">>}, Sizes({1}, {1}, {}, {}))
   EXCEPT !.modules = {None, Some(<<>>), Some(<<"images_list">>),
                       Some(<<"vocabulary">>), Some(<<"images_list", "themes">>)}]

EnvDeleteKilled ==
  Env({"analyze", "delete_analysis"}, {"analyze"}, {}, {"delete_analysis"},
      MaxRuns, {"basic"}, {<<"themes">>}, Sizes({}, {}, {}, {}))

EnvFormatReoptimized ==
  Env({"analyze", "restructure", "generate", "optimize", "format"},
      {"optimize", "format"}, {}, {}, 1, {"basic"},
      {<<"themes">>}, Sizes({1}, {1}, {0, 1}, {1}))

\* The prompt store lacks the restructurer's prompt of module themes and the
\* generator's system prompt.
EnvPromptsMissing ==
  [Env({"analyze", "restructure", "generate"},
       {"restructure"}, {}, {}, 1, {"basic"},
       {<<"themes", "vocabulary">>}, Sizes({1}, {1}, {}, {}))
   EXCEPT !.missing = {<<"restructure", "themes">>, <<"generate", "system">>}]

\* The services are given the session gateway; generate_cards meets gateway
\* errors.
EnvSessionGateway ==
  [Env({"analyze", "restructure", "generate"},
       {"restructure"}, {"generate"}, {}, 1, {"basic"},
       {<<"themes", "vocabulary">>}, Sizes({1}, {1}, {}, {}))
   EXCEPT !.gateway = "session"]

\* The services are given the session gateway; the process is terminated
\* during generate_cards and started again.
EnvSessionRestart ==
  [Env({"analyze", "restructure", "generate"},
       {}, {}, {"generate"}, 1, {"basic"},
       {<<"themes", "vocabulary">>}, Sizes({1}, {1}, {}, {}))
   EXCEPT !.gateway = "session"]

Environments ==
  {EnvRestructureFaults, EnvRestructureKilled, EnvRuns, EnvGenerateFaults,
   EnvGenerateKilled, EnvOptimizeFaults, EnvFormatFaults, EnvRunsAllStages,
   EnvAnalysisDeleted, EnvDeleteKilled, EnvFormatReoptimized, EnvPromptsMissing,
   EnvSessionGateway, EnvSessionRestart, EnvOutsideNames,
   EnvImages}

\* FileSystemPromptRepository.get_system_prompt / get_module_prompt find the
\* prompt (otherwise they raise PromptNotFoundError)
PromptFound(stage, name) == <<stage, name>> \notin env.missing

(* --------------------------- session gateway --------------------------- *)
\* Session ids the command-line tool hands out (never reused)
MaxSessions == 2

\* The path of the document's PDF, as the document repository gives it
DocPath == "docs/Doc.pdf"

\* str(Path(p).resolve()).replace("\\", "/").lower()
NormalizePath(p) ==
  CASE p = "docs/Doc.pdf" -> "docs/doc.pdf"
    [] p = "docs/DOC.pdf" -> "docs/doc.pdf"
    [] OTHER -> p

\* One run of the command-line tool: the session id passed with --resume, the
\* attachment named in the prompt, and whether JSON output was asked for
NoCall == [resume |-> None, attached |-> None, capture |-> FALSE]

\* ClaudeSessionAdapter.__init__; nsid counts the session ids handed out,
\* owner is the attachment whose call established the current session and
\* cur the attachment of the latest call with an attachment (history only)
GwInit ==
  [session_id |-> None, current_pdf |-> None, last |-> NoCall, nsid |-> 0,
   owner |-> None, cur |-> None]

\* _run_claude and _parse_json_response: the call made, and the session id
\* captured when JSON output was asked for and carries one (est)
RunClaude(g, pdf, capture, est) ==
  LET got == capture /\ est
  IN [g EXCEPT !.last = [resume |-> IF IsSome(g.session_id) /\ ~capture
                                     THEN g.session_id ELSE None,
                         attached |-> pdf, capture |-> capture],
               !.session_id = IF got THEN Some(g.nsid + 1) ELSE @,
               !.nsid = IF got THEN @ + 1 ELSE @]

\* ClaudeSessionAdapter.send_message
SendMessage(g, est) == RunClaude(g, None, ~IsSome(g.session_id), est)

\* ClaudeSessionAdapter.send_message_with_pdf
SendMessageWithPdf(g, p, est) ==
  LET current == IF IsSome(g.current_pdf)
                 THEN Some(NormalizePath(Val(g.current_pdf))) ELSE None
      after ==
        IF Some(NormalizePath(p)) /= current
        THEN RunClaude([g EXCEPT !.session_id = None, !.current_pdf = Some(p)],
                       Some(p), TRUE, est)
        ELSE IF IsSome(g.session_id)
        THEN RunClaude(g, None, FALSE, est)
        ELSE RunClaude(g, Some(p), TRUE, est)
  IN [after EXCEPT
        !.owner = IF after.nsid /= g.nsid
                  THEN Some([pdf |-> p, sid |-> after.nsid])
                  ELSE IF IsSome(g.owner) /\ Val(g.owner).pdf /= p THEN None
                  ELSE @,
        !.cur = Some(p)]

\* A faulty variant of set_session_id: the session id is not taken.
SetSessionIdDropped(g, session_id, pdf_path) ==
  [g EXCEPT !.current_pdf = pdf_path]

\* ClaudeSessionAdapter.set_session_id
SetSessionId(g, session_id, pdf_path) ==
  [g EXCEPT !.session_id = Some(session_id), !.current_pdf = pdf_path]

\* The gateway after one call of a service: send_message_with_pdf with the
\* document's path (analyze, restructure) or send_message (the other stages)
GwCall(kind, est) ==
  IF env.gateway /= "session" THEN gw
  ELSE IF kind = "send_message_with_pdf" THEN SendMessageWithPdf(gw, DocPath, est)
  ELSE SendMessage(gw, est)

\* The gateway part of a step of a service that may call the gateway: the
\* step made a call iff it recorded one; the tool's output carries a session
\* id or not.
GatewayStep(kind) ==
  IF obs'.sent = obs.sent THEN gw' = gw
  ELSE \E est \in BOOLEAN :
         /\ est => gw.nsid < MaxSessions
         /\ gw' = GwCall(kind, est)

\* No pure function is under examination
NoProbe == [fn |-> "none", input |-> <<>>, out |-> None]

(* --------------------------- invocation state -------------------------- *)
IdleInv ==
  [op |-> "none", force |-> FALSE, aid |-> NoRun, up |-> EmptyId, ct |-> "basic",
   sel |-> <<>>, idx |-> 0, n |-> 0, k |-> 0, badAt |-> 0, processed |-> <<>>,
   detected |-> <<>>, err |-> "", saved |-> None]

NoRet == [kind |-> "none", err |-> "", val |-> None]
OkRet(v) == [kind |-> "ok", err |-> "", val |-> v]
ErrRet(e) == [kind |-> "error", err |-> e, val |-> None]
KilledRet == [kind |-> "killed", err |-> "", val |-> None]
\* The bool a storage delete returns.
Deleted(b) == Some([deleted |-> b])

\* What an observer records about one invocation: its arguments, what the
\* store held when it began (the requested modules, the stage's ledger and
\* metadata in the latest run, whether the previous invocation of the same
\* operation was terminated), the modules it set in_progress, the modules it
\* sent to the gateway, and the exceptions raised while processing a module
\* (<<module, kind>>).  entryStore and entryLatest are the whole store and
\* the latest pointer as the invocation found them.
NewObs(op, force, work, resume) ==
  [op |-> op, force |-> force, resume |-> resume, work |-> work,
   ct |-> "basic", aid |-> NoRun, requested |-> <<>>, entryTracking |-> None,
   entryMeta |-> None, afterKill |-> FALSE,
   entryStore |-> fs, entryLatest |-> latest,
   started |-> <<>>, sent |-> <<>>, raised |-> <<>>, listed |-> <<>>,
   chose |-> FALSE, asked |-> None, available |-> <<>>]

Init ==
  /\ latest = NoRun
  /\ fs = [r \in Runs |-> EmptyRun]
  /\ nruns = 0
  /\ nids = [s \in Stages |-> 0]
  /\ pc = "idle"
  /\ inv = IdleInv
  /\ ret = NoRet
  /\ obs = NewObs("none", FALSE, <<>>, FALSE)
  /\ env \in Environments
  /\ gw = GwInit
  /\ probe = NoProbe

\* An invocation that ends in its first step (rejected, or nothing to do).
EndAtEntry(op, force, r) ==
  /\ pc' = "idle"
  /\ inv' = IdleInv
  /\ ret' = r
  /\ obs' = NewObs(op, force, <<>>, FALSE)
  /\ UNCHANGED <<latest, fs, nruns, nids>>

(* ============================ stage 1: analyze ========================= *)
\* A faulty variant of AnalyzeStart: the existing analysis is not looked for.
AnalyzeStartUnguarded(force) ==
  /\ pc = "idle"
  /\ UNCHANGED <<env, gw, probe>>
  /\ "analyze" \in env.ops
  /\ nruns < env.runs
  /\ pc' = "a_call"
  /\ inv' = [IdleInv EXCEPT !.op = "analyze", !.force = force]
  /\ ret' = NoRet
  /\ obs' = NewObs("analyze", force, <<>>, FALSE)
  /\ UNCHANGED <<latest, fs, nruns, nids>>

\* analyze_document up to the gateway call: guards of lines 124-144.
AnalyzeStart(force) ==
  /\ pc = "idle"
  /\ UNCHANGED <<env, gw, probe>>
  /\ "analyze" \in env.ops
  /\ force => "analyze" \in env.forced
  /\ nruns < env.runs
  /\ IF ~force /\ latest /= NoRun   \* exists_for_document: latest.json exists
     THEN EndAtEntry("analyze", force, ErrRet("AnalysisAlreadyExistsError"))
     ELSE /\ pc' = "a_call"
          /\ inv' = [IdleInv EXCEPT !.op = "analyze", !.force = force]
          /\ ret' = NoRet
          /\ obs' = NewObs("analyze", force, <<>>, FALSE)
          /\ UNCHANGED <<latest, fs, nruns, nids>>

\* Analysis._validate on the module list: no element outside
\* ContentModule.all_modules() (otherwise ValueError)
AnalysisValidate(detected_modules) ==
  SeqToSet(detected_modules) \subseteq AllModules

\* AnalyzeCallGateway without the module filter and the entity's validation:
\* what the gateway lists is saved as it is.
AnalyzeCallGatewayUnfiltered ==
  /\ pc = "a_call"
  /\ UNCHANGED <<env, probe>>
  /\ \/ \E d \in env.detected :
          /\ inv' = [inv EXCEPT !.detected = d, !.aid = nruns + 1]
          /\ nruns' = nruns + 1
          /\ pc' = "a_save"
          /\ obs' = [obs EXCEPT !.sent = Append(@, "document"), !.listed = d]
          /\ UNCHANGED <<ret>>
     \/ /\ "analyze" \in env.faulty
        /\ pc' = "idle"
        /\ inv' = IdleInv
        /\ ret' = ErrRet("AIError")
        /\ obs' = [obs EXCEPT !.sent = Append(@, "document"),
                              !.raised = Append(@, <<"document", "AIError">>)]
        /\ UNCHANGED <<nruns>>
  /\ UNCHANGED <<latest, fs, nids>>
  /\ GatewayStep("send_message_with_pdf")

\* send_message_with_pdf + _parse_detected_modules + the module filter +
\* the creation of the Analysis entity (ValueError -> DomainValidationError).
AnalyzeCallGateway ==
  /\ pc = "a_call"
  /\ UNCHANGED <<env, probe>>
  /\ \/ \E d \in env.detected :
          LET valid_modules == FilterSeq(d, AllModules) IN
          IF AnalysisValidate(valid_modules)
          THEN /\ inv' = [inv EXCEPT !.detected = valid_modules,
                                     !.aid = nruns + 1]
               /\ nruns' = nruns + 1
               /\ pc' = "a_save"
               /\ obs' = [obs EXCEPT !.sent = Append(@, "document"),
                                     !.listed = d]
               /\ UNCHANGED <<ret>>
          ELSE /\ pc' = "idle"
               /\ inv' = IdleInv
               /\ ret' = ErrRet("DomainValidationError")
               /\ obs' = [obs EXCEPT !.sent = Append(@, "document"),
                                     !.listed = d]
               /\ UNCHANGED <<nruns>>
     \/ /\ "analyze" \in env.faulty
        /\ pc' = "idle"
        /\ inv' = IdleInv
        /\ ret' = ErrRet("AIError")
        /\ obs' = [obs EXCEPT !.sent = Append(@, "document"),
                              !.raised = Append(@, <<"document", "AIError">>)]
        /\ UNCHANGED <<nruns>>
  /\ UNCHANGED <<latest, fs, nids>>
  /\ GatewayStep("send_message_with_pdf")

\* JsonFileAnalysisStorage.save, first write: {analysis_id}/modules.json
AnalysisSaveRecord ==
  /\ pc = "a_save"
  /\ UNCHANGED <<env, gw, probe>>
  /\ fs' = [fs EXCEPT ![inv.aid].analysis = Some([detected |-> inv.detected])]
  /\ pc' = "a_latest"
  /\ UNCHANGED <<latest, nruns, nids, inv, ret, obs>>

\* JsonFileAnalysisStorage._update_latest, then the return of analyze_document
AnalysisUpdateLatest ==
  /\ pc = "a_latest"
  /\ UNCHANGED <<env, gw, probe>>
  /\ latest' = inv.aid
  /\ pc' = "idle"
  /\ ret' = OkRet(Some([analysis_id |-> inv.aid, detected |-> inv.detected]))
  /\ inv' = IdleInv
  /\ UNCHANGED <<fs, nruns, nids, obs>>

\* The analyses stored for the document other than r (find_all_for_document
\* after the directory of r is removed)
OtherAnalyses(r) == {x \in Runs \ {r} : IsSome(fs[x].analysis)}

\* The most recent of a non-empty set of analyses: analyses[0] of the list
\* sorted by analyzed_at, newest first (analysis ids are numbered in the
\* order of their creation).
MostRecent(S) == CHOOSE x \in S : \A y \in S : y <= x

\* delete_analysis(analysis_id): the id check, find_by_id, then
\* JsonFileAnalysisStorage.delete: rmtree of the analysis directory (with
\* every stage output in it) and, when it was the latest, latest.json
\* rewritten to the most recent analysis left or removed when none is left.
DeleteAnalysis(aid) ==
  /\ pc = "idle"
  /\ UNCHANGED <<env, gw, probe>>
  /\ "delete_analysis" \in env.ops
  /\ IF aid = EmptyId
     THEN EndAtEntry("delete_analysis", FALSE, ErrRet("DomainValidationError"))
     ELSE IF ~IsSome(AnalysisFindById(aid))
     THEN EndAtEntry("delete_analysis", FALSE, ErrRet("AnalysisNotFoundError"))
     ELSE \* shutil.rmtree(analysis_folder); the pointer is rewritten afterwards
          /\ fs' = [fs EXCEPT ![aid] = EmptyRun]
          /\ pc' = "d_latest"
          /\ inv' = [IdleInv EXCEPT !.op = "delete_analysis", !.aid = aid]
          /\ obs' = NewObs("delete_analysis", FALSE, <<>>, FALSE)
          /\ UNCHANGED <<latest, nruns, nids, ret>>

DeleteUpdateLatest ==
  /\ pc = "d_latest"
  /\ UNCHANGED <<env, gw, probe>>
  /\ latest' = IF latest /= inv.aid THEN latest
                ELSE IF OtherAnalyses(inv.aid) = {} THEN NoRun
                ELSE MostRecent(OtherAnalyses(inv.aid))
  /\ pc' = "idle"
  /\ inv' = IdleInv
  /\ ret' = OkRet(Deleted(TRUE))
  /\ UNCHANGED <<fs, nruns, nids, obs>>

(* ========================== stage 2: restructure ======================= *)
\* Directories under the run directory that JsonRestructuredStorage.delete
\* removes: the module directories and cards/ (every sub-directory).
RunDirs(r) ==
  {m \in ModuleSet : fs[r].ritems[m] > 0}
    \cup (IF fs[r].cards.cardsDir THEN {"cards"} ELSE {})

\* restructure_document, lines 106-189 up to the first store write.
RestructureStart(aid, force) ==
  /\ pc = "idle"
  /\ UNCHANGED <<env, gw, probe>>
  /\ "restructure" \in env.ops
  /\ force => "restructure" \in env.forced
  /\ nids["restructure"] < MaxIds
  /\ LET analysis == AnalysisFindById(aid)
         detected == IF IsSome(analysis) THEN Val(analysis).detected ELSE <<>>
         selected == FilterSeq(detected, AllModules)
         tracking == RGetTracking
         toProcess == FilterSeq(selected, AllModules \ CompletedModules(tracking))
         begin(p, sel, resume) ==
           /\ pc' = p
           /\ inv' = [IdleInv EXCEPT !.op = "restructure", !.force = force,
                                     !.aid = aid, !.sel = sel, !.idx = 1]
           /\ ret' = NoRet
           /\ obs' = [NewObs("restructure", force, sel, resume) EXCEPT
                        !.aid = aid, !.requested = selected,
                        !.entryTracking = tracking,
                        !.entryMeta = RGetMetadata,
                        !.afterKill = (ret.kind = "killed" /\ obs.op = "restructure")]
           /\ UNCHANGED <<latest, fs, nruns, nids>>
     IN
     IF aid = EmptyId
     THEN EndAtEntry("restructure", force, ErrRet("DomainValidationError"))
     ELSE IF ~IsSome(analysis)
     THEN EndAtEntry("restructure", force, ErrRet("AnalysisNotFoundError"))
     ELSE IF selected = <<>>
     THEN EndAtEntry("restructure", force, ErrRet("DomainValidationError"))
     ELSE IF IsSome(tracking) /\ ~force
     THEN IF toProcess = <<>>
          THEN /\ pc' = "idle"
               /\ inv' = IdleInv
               /\ ret' = OkRet(RGetMetadata)
               /\ obs' = [NewObs("restructure", force, <<>>, TRUE) EXCEPT
                            !.aid = aid, !.requested = selected,
                            !.entryTracking = tracking,
                            !.entryMeta = RGetMetadata,
                            !.afterKill = (ret.kind = "killed" /\ obs.op = "restructure")]
               /\ UNCHANGED <<latest, fs, nruns, nids>>
          ELSE begin("r_mark", toProcess, TRUE)
     ELSE IF ~force /\ RExistsForDocument
     THEN EndAtEntry("restructure", force, ErrRet("RestructurationAlreadyExistsError"))
     ELSE IF force /\ latest /= NoRun
     THEN begin("r_del_meta", selected, FALSE)
     ELSE begin("r_init", selected, FALSE)

\* A faulty variant of RDeleteMeta: the delete also rewrites latest.json.
RDeleteMetaMovesLatest ==
  /\ pc = "r_del_meta"
  /\ UNCHANGED <<env, gw, probe>>
  /\ fs' = [fs EXCEPT ![latest].rmeta = None]
  /\ latest' = IF latest = 1 THEN MaxRuns ELSE 1
  /\ pc' = "r_del_dirs"
  /\ UNCHANGED <<nruns, nids, inv, ret, obs>>

\* JsonRestructuredStorage.delete, first write: unlink restructuration.json
RDeleteMeta ==
  /\ pc = "r_del_meta"
  /\ UNCHANGED <<env, gw, probe>>
  /\ fs' = [fs EXCEPT ![latest].rmeta = None]
  /\ pc' = "r_del_dirs"
  /\ UNCHANGED <<latest, nruns, nids, inv, ret, obs>>

\* JsonRestructuredStorage.delete, the rmtree loop: one directory per step,
\* in the (unspecified) order of iterdir; the step that finds none ends delete.
RDeleteDir ==
  /\ pc = "r_del_dirs"
  /\ UNCHANGED <<env, gw, probe>>
  /\ IF RunDirs(latest) = {}
     THEN /\ IF inv.op = "delete_restructuration"
             THEN /\ pc' = "idle"
                  /\ ret' = OkRet(Deleted(TRUE))
                  /\ inv' = IdleInv
             ELSE /\ pc' = "r_init"
                  /\ UNCHANGED <<inv, ret>>
          /\ UNCHANGED fs
     ELSE /\ \E d \in RunDirs(latest) :
               fs' = IF d = "cards"
                     THEN [fs EXCEPT ![latest].cards = EmptyCards]
                     ELSE [fs EXCEPT ![latest].ritems[d] = 0]
          /\ UNCHANGED <<pc, inv, ret>>
  /\ UNCHANGED <<latest, nruns, nids, obs>>

\* save_tracking(document_id, _init_tracking(...)), line 188-189
RInitTracking ==
  /\ pc = "r_init"
  /\ UNCHANGED <<env, gw, probe>>
  /\ IF latest = NoRun
     THEN \* _get_analysis_path raises ValueError, which nothing catches
          /\ pc' = "idle"
          /\ ret' = ErrRet("ValueError")
          /\ inv' = IdleInv
          /\ obs' = [obs EXCEPT !.raised = Append(@, <<"", "ValueError">>)]
          /\ UNCHANGED fs
     ELSE /\ fs' = [fs EXCEPT ![latest].rtrack = Some(InitTracking(inv.sel))]
          /\ pc' = "r_mark"
          /\ UNCHANGED <<inv, ret, obs>>
  /\ UNCHANGED <<latest, nruns, nids>>

\* update_module_status(document_id, module, "in_progress"), line 203
\* Before the first module, get_system_prompt (line 193): a missing system
\* prompt raises PromptNotFoundError out of restructure_document.
RMarkInProgress ==
  /\ pc = "r_mark"
  /\ UNCHANGED <<env, gw, probe>>
  /\ IF inv.idx = 1 /\ ~PromptFound("restructure", "system")
     THEN /\ pc' = "idle"
          /\ ret' = ErrRet("PromptNotFoundError")
          /\ inv' = IdleInv
          /\ obs' = [obs EXCEPT !.raised = Append(@, <<"", "PromptNotFoundError">>)]
          /\ UNCHANGED fs
     ELSE /\ LET m == inv.sel[inv.idx]
             IN /\ fs' = [fs EXCEPT ![latest].rtrack =
                            Some(UpdateModuleStatus(@, m, "in_progress", 0, ""))]
                /\ obs' = [obs EXCEPT !.started = Append(@, m)]
          /\ pc' = "r_call"
          /\ inv' = [inv EXCEPT !.n = 0, !.k = 0, !.badAt = 0]
          /\ UNCHANGED ret
  /\ UNCHANGED <<latest, nruns, nids>>

\* _extract_module_content: get_module_prompt (a missing prompt raises
\* PromptNotFoundError, which the loop's "except Exception" catches), then
\* send_message_with_pdf and _parse_module_items.
\* The gateway answers with n items (the item at position badAt, if any, is
\* not a JSON object), or raises AIError, or the answer makes the parser
\* raise an exception that is not an AIError.
RCallGateway ==
  /\ pc = "r_call"
  /\ UNCHANGED <<env, probe>>
  /\ LET m == inv.sel[inv.idx]
     IN \/ /\ ~PromptFound("restructure", m)
           /\ pc' = "r_fail_other"
           /\ obs' = [obs EXCEPT !.raised = Append(@, <<m, "PromptNotFoundError">>)]
           /\ UNCHANGED inv
        \/ \E n \in env.sizes["restructure"], bad \in 0..MaxItems :
             /\ PromptFound("restructure", m)
             /\ bad <= n
             /\ bad > 0 => inv.op \in env.faulty
             /\ inv' = [inv EXCEPT !.n = n, !.k = 0, !.badAt = bad]
             /\ pc' = IF n = 0 THEN "r_complete" ELSE "r_save"
             /\ obs' = [obs EXCEPT !.sent = Append(@, m)]
        \/ /\ PromptFound("restructure", m)
           /\ inv.op \in env.faulty
           /\ pc' = "r_fail_ai"
           /\ obs' = [obs EXCEPT !.sent = Append(@, m),
                                 !.raised = Append(@, <<m, "AIError">>)]
           /\ UNCHANGED inv
        \/ /\ PromptFound("restructure", m)
           /\ inv.op \in env.faulty
           /\ pc' = "r_fail_other"
           /\ obs' = [obs EXCEPT !.sent = Append(@, m),
                                 !.raised = Append(@, <<m, "Exception">>)]
           /\ UNCHANGED inv
  /\ UNCHANGED <<latest, fs, nruns, nids, ret>>
  /\ GatewayStep("send_message_with_pdf")

\* save_module_item for the next item of the answer, lines 214-221
RSaveItem ==
  /\ pc = "r_save"
  /\ UNCHANGED <<env, gw, probe>>
  /\ LET m == inv.sel[inv.idx]
         i == inv.k + 1
     IN IF i = inv.badAt
        THEN \* content["id"] = ... on a non-dict item raises TypeError
             /\ pc' = "r_fail_other"
             /\ obs' = [obs EXCEPT !.raised = Append(@, <<m, "Exception">>)]
             /\ UNCHANGED <<fs, inv>>
        ELSE /\ fs' = [fs EXCEPT ![latest].ritems[m] = IF @ > i THEN @ ELSE i]
             /\ inv' = [inv EXCEPT !.k = i]
             /\ pc' = IF i = inv.n THEN "r_complete" ELSE "r_save"
             /\ UNCHANGED obs
  /\ UNCHANGED <<latest, nruns, nids, ret>>

\* Where the module loop goes after the module at inv.idx.
RNextPc == IF inv.idx = Len(inv.sel) THEN "r_meta" ELSE "r_mark"

\* update_module_status(..., "completed", items_count=len(items)), lines 224-229
RMarkCompleted ==
  /\ pc = "r_complete"
  /\ UNCHANGED <<env, gw, probe>>
  /\ LET m == inv.sel[inv.idx]
     IN /\ fs' = [fs EXCEPT ![latest].rtrack =
                    Some(UpdateModuleStatus(@, m, "completed", inv.n, ""))]
        /\ inv' = [inv EXCEPT !.processed = Append(@, m), !.idx = @ + 1]
  /\ pc' = RNextPc
  /\ UNCHANGED <<latest, nruns, nids, ret, obs>>

\* A faulty variant of RMarkFailedAI: the error is re-raised unrecorded.
RRaiseUnrecorded ==
  /\ pc = "r_fail_ai"
  /\ UNCHANGED <<env, gw, probe>>
  /\ pc' = "idle"
  /\ ret' = ErrRet("AIError")
  /\ inv' = IdleInv
  /\ UNCHANGED <<latest, fs, nruns, nids, obs>>

\* except AIError: mark failed, re-raise (lines 236-244)
RMarkFailedAI ==
  /\ pc = "r_fail_ai"
  /\ UNCHANGED <<env, gw, probe>>
  /\ LET m == inv.sel[inv.idx]
     IN fs' = [fs EXCEPT ![latest].rtrack =
                 Some(UpdateModuleStatus(@, m, "failed", 0, "AIError"))]
  /\ pc' = "idle"
  /\ ret' = ErrRet("AIError")
  /\ inv' = IdleInv
  /\ UNCHANGED <<latest, nruns, nids, obs>>

\* except Exception: mark failed, continue (lines 245-253)
RMarkFailedOther ==
  /\ pc = "r_fail_other"
  /\ UNCHANGED <<env, gw, probe>>
  /\ LET m == inv.sel[inv.idx]
     IN fs' = [fs EXCEPT ![latest].rtrack =
                 Some(UpdateModuleStatus(@, m, "failed", 0,
                                         obs.raised[Len(obs.raised)][2]))]
  /\ inv' = [inv EXCEPT !.idx = @ + 1]
  /\ pc' = RNextPc
  /\ UNCHANGED <<latest, nruns, nids, ret, obs>>

\* A faulty variant of RSaveMetadata: the metadata goes to the directory of
\* the analysis the caller named.
RSaveMetadataInNamedRun ==
  /\ pc = "r_meta"
  /\ UNCHANGED <<env, gw, probe>>
  /\ LET meta == [id |-> nids["restructure"] + 1, processed |-> inv.processed,
                  analysis_id |-> inv.aid]
     IN /\ fs' = [fs EXCEPT ![inv.aid].rmeta = Some(meta)]
        /\ ret' = OkRet(Some(meta))
  /\ nids' = [nids EXCEPT !["restructure"] = @ + 1]
  /\ pc' = "idle"
  /\ inv' = IdleInv
  /\ UNCHANGED <<latest, nruns, obs>>

\* save_restructuration_metadata and the return, lines 255-274
RSaveMetadata ==
  /\ pc = "r_meta"
  /\ UNCHANGED <<env, gw, probe>>
  /\ LET meta == [id |-> nids["restructure"] + 1, processed |-> inv.processed,
                  analysis_id |-> GetLatestAnalysisId]
     IN /\ fs' = [fs EXCEPT ![latest].rmeta = Some(meta)]
        /\ ret' = OkRet(Some(meta))
  /\ nids' = [nids EXCEPT !["restructure"] = @ + 1]
  /\ pc' = "idle"
  /\ inv' = IdleInv
  /\ UNCHANGED <<latest, nruns, obs>>

\* delete_restructuration(restructuration_id), lines 454-467
DeleteRestructuration(id) ==
  /\ pc = "idle"
  /\ UNCHANGED <<env, gw, probe>>
  /\ "delete_restructuration" \in env.ops
  /\ IF id = EmptyId
     THEN EndAtEntry("delete_restructuration", FALSE, ErrRet("DomainValidationError"))
     ELSE IF ~IsSome(RFindById(id))
     THEN EndAtEntry("delete_restructuration", FALSE,
                     ErrRet("RestructurationNotFoundError"))
     ELSE /\ pc' = IF latest = NoRun THEN "idle" ELSE "r_del_meta"
          /\ inv' = IF latest = NoRun THEN IdleInv
                    ELSE [IdleInv EXCEPT !.op = "delete_restructuration", !.up = id]
          /\ ret' = IF latest = NoRun THEN OkRet(Deleted(FALSE)) ELSE NoRet
          /\ obs' = NewObs("delete_restructuration", FALSE, <<>>, FALSE)
          /\ UNCHANGED <<latest, fs, nruns, nids>>

(* =========================== stage 3: generate ========================= *)
\* JsonCardsStorage.get_tracking(document_id, card_type)
GGetTracking(ct) == IF latest = NoRun THEN None ELSE fs[latest].cards.gtrack[ct]

\* JsonCardsStorage.get_generation_metadata(document_id, card_type)
GGetMetadata(ct) ==
  IF latest = NoRun \/ ~fs[latest].cards.cardsDir THEN None
  ELSE fs[latest].cards.gmeta[ct]

\* JsonCardsStorage.exists_for_restructuration
GExistsForRestructuration(ct) == IsSome(GGetMetadata(ct))

\* JsonCardsStorage.find_by_id: scans generation-basic.json of every run,
\* then generation-cloze.json
GFindById(id) ==
  LET hits(c) == {r \in Runs : IsSome(fs[r].cards.gmeta[c])
                                /\ Val(fs[r].cards.gmeta[c]).id = id}
  IN IF hits("basic") /= {} THEN fs[CHOOSE r \in hits("basic") : TRUE].cards.gmeta["basic"]
     ELSE IF hits("cloze") /= {}
     THEN fs[CHOOSE r \in hits("cloze") : TRUE].cards.gmeta["cloze"]
     ELSE None

\* len(JsonRestructuredStorage.get_module_items(document_id, module))
GetModuleItems(m) == IF latest = NoRun THEN 0 ELSE fs[latest].ritems[m]

\* The module filter of generate_cards, lines 137-150.
\* "if modules:" is false for None and for the empty list.
GSelectModules(modules, available) ==
  IF IsSome(modules) /\ Val(modules) /= <<>>
  THEN FilterSeq(Val(modules), SeqToSet(available))
  ELSE FilterSeq(available, AllModules \ EXCLUDED_MODULES_DEFAULT)

\* generate_cards, lines 107-207 up to the first store write.
GenerateStart(rid, ct, modules, force) ==
  /\ pc = "idle"
  /\ UNCHANGED <<env, probe>>
  /\ "generate" \in env.ops
  /\ force => "generate" \in env.forced
  /\ ct \in env.cts
  /\ nids["generate"] < MaxIds
  /\ LET restructuration == RFindById(rid)
         available == IF IsSome(restructuration)
                      THEN Val(restructuration).processed ELSE <<>>
         selected == GSelectModules(modules, available)
         tracking == GGetTracking(ct)
         toProcess == FilterSeq(selected, AllModules \ CompletedModules(tracking))
         watch(sel, resume) ==
           [NewObs("generate", force, sel, resume) EXCEPT
              !.ct = ct, !.requested = selected,
              !.chose = TRUE, !.asked = modules, !.available = available,
              !.entryTracking = tracking,
              !.entryMeta = GGetMetadata(ct),
              !.afterKill = (ret.kind = "killed" /\ obs.op = "generate")]
         begin(p, sel, resume) ==
           /\ pc' = p
           /\ inv' = [IdleInv EXCEPT !.op = "generate", !.force = force,
                                     !.up = rid, !.ct = ct, !.sel = sel, !.idx = 1,
                                     !.saved = IF resume THEN Val(tracking).session_id
                                               ELSE None]
           /\ ret' = NoRet
           /\ obs' = watch(sel, resume)
           /\ UNCHANGED <<latest, fs, nruns, nids>>
     IN
     IF rid = EmptyId \/ ct \notin VALID_CARD_TYPES
     THEN EndAtEntry("generate", force, ErrRet("DomainValidationError"))
     ELSE IF ~IsSome(restructuration)
     THEN EndAtEntry("generate", force, ErrRet("RestructurationNotFoundError"))
     ELSE IF selected = <<>>
     THEN /\ pc' = "idle"
          /\ inv' = IdleInv
          /\ ret' = ErrRet("DomainValidationError")
          /\ obs' = [NewObs("generate", force, <<>>, FALSE) EXCEPT
                       !.chose = TRUE, !.asked = modules, !.available = available]
          /\ UNCHANGED <<latest, fs, nruns, nids>>
     ELSE IF IsSome(tracking) /\ ~force
     THEN IF toProcess = <<>>
          THEN /\ pc' = "idle"
               /\ inv' = IdleInv
               /\ ret' = OkRet(GGetMetadata(ct))
               /\ obs' = watch(<<>>, TRUE)
               /\ UNCHANGED <<latest, fs, nruns, nids>>
          ELSE begin("g_mark", toProcess, TRUE)
     ELSE IF ~force /\ GExistsForRestructuration(ct)
     THEN EndAtEntry("generate", force, ErrRet("GenerationAlreadyExistsError"))
     ELSE IF force /\ latest /= NoRun /\ fs[latest].cards.cardsDir
     THEN begin("g_del_meta", selected, FALSE)
     ELSE begin("g_init", selected, FALSE)
  \* lines 209-215: the session id of the ledger resumed from is injected
  \* into a gateway that has set_session_id
  /\ gw' = IF pc' = "g_mark" /\ IsSome(inv'.saved) /\ env.gateway = "session"
           THEN SetSessionId(gw, Val(inv'.saved), None)
           ELSE gw

\* JsonCardsStorage.delete(document_id, card_type): unlink generation-{ct}.json
GDeleteMeta ==
  /\ pc = "g_del_meta"
  /\ UNCHANGED <<env, gw, probe>>
  /\ fs' = [fs EXCEPT ![latest].cards.gmeta[inv.ct] = None]
  /\ pc' = "g_del_track"
  /\ UNCHANGED <<latest, nruns, nids, inv, ret, obs>>

\* JsonCardsStorage.delete: unlink tracking-{ct}.json
GDeleteTracking ==
  /\ pc = "g_del_track"
  /\ UNCHANGED <<env, gw, probe>>
  /\ fs' = [fs EXCEPT ![latest].cards.gtrack[inv.ct] = None]
  /\ pc' = "g_del_dir"
  /\ UNCHANGED <<latest, nruns, nids, inv, ret, obs>>

\* A faulty variant of GDeleteDir: the card files are left in place.
GDeleteDirKeepsCards ==
  /\ pc = "g_del_dir"
  /\ UNCHANGED <<env, gw, probe>>
  /\ IF inv.op = "delete_generation"
     THEN /\ pc' = "idle"
          /\ ret' = OkRet(Deleted(TRUE))
          /\ inv' = IdleInv
     ELSE /\ pc' = "g_init"
          /\ UNCHANGED <<inv, ret>>
  /\ UNCHANGED <<latest, fs, nruns, nids, obs>>

\* JsonCardsStorage.delete: rmtree cards/{ct}, and the return of delete
GDeleteDir ==
  /\ pc = "g_del_dir"
  /\ UNCHANGED <<env, gw, probe>>
  /\ fs' = [fs EXCEPT ![latest].cards.gcards[inv.ct] = NoCounts]
  /\ IF inv.op = "delete_generation"
     THEN /\ pc' = "idle"
          /\ ret' = OkRet(Deleted(TRUE))
          /\ inv' = IdleInv
     ELSE /\ pc' = "g_init"
          /\ UNCHANGED <<inv, ret>>
  /\ UNCHANGED <<latest, nruns, nids, obs>>

\* save_tracking(document_id, card_type, _init_tracking(...)), lines 204-207
GInitTracking ==
  /\ pc = "g_init"
  /\ UNCHANGED <<env, gw, probe>>
  /\ fs' = [fs EXCEPT ![latest].cards.cardsDir = TRUE,
                      ![latest].cards.gtrack[inv.ct] = Some(InitTracking(inv.sel))]
  /\ pc' = "g_mark"
  /\ UNCHANGED <<latest, nruns, nids, inv, ret, obs>>

\* update_module_status(..., "in_progress"), line 230, and the read of the
\* module's restructured items, line 234
GMarkInProgress ==
  /\ pc = "g_mark"
  /\ UNCHANGED <<env, gw, probe>>
  /\ IF inv.idx = 1 /\ ~PromptFound("generate", "system")
     THEN \* get_system_prompt (line 219) raises out of generate_cards
          /\ pc' = "idle"
          /\ ret' = ErrRet("PromptNotFoundError")
          /\ inv' = IdleInv
          /\ obs' = [obs EXCEPT !.raised = Append(@, <<"", "PromptNotFoundError">>)]
          /\ UNCHANGED fs
     ELSE /\ LET m == inv.sel[inv.idx]
             IN /\ fs' = [fs EXCEPT ![latest].cards.cardsDir = TRUE,
                                    ![latest].cards.gtrack[inv.ct] =
                                       Some(UpdateModuleStatus(@, m, "in_progress", 0, ""))]
                /\ obs' = [obs EXCEPT !.started = Append(@, m)]
                /\ pc' = IF GetModuleItems(m) = 0 THEN "g_empty" ELSE "g_call"
          /\ inv' = [inv EXCEPT !.n = 0, !.k = 0, !.err = ""]
          /\ UNCHANGED ret
  /\ UNCHANGED <<latest, nruns, nids>>

\* Where the module loop goes after the module at inv.idx.
GNextPc == IF inv.idx = Len(inv.sel) THEN "g_meta" ELSE "g_mark"

\* "Module sans contenu": completed with cards_count=0, continue (lines 236-241)
GMarkEmptyCompleted ==
  /\ pc = "g_empty"
  /\ UNCHANGED <<env, gw, probe>>
  /\ LET m == inv.sel[inv.idx]
     IN fs' = [fs EXCEPT ![latest].cards.gtrack[inv.ct] =
                 Some(UpdateModuleStatus(@, m, "completed", 0, ""))]
  /\ inv' = [inv EXCEPT !.idx = @ + 1]
  /\ pc' = GNextPc
  /\ UNCHANGED <<latest, nruns, nids, ret, obs>>

\* _is_rate_limit_error on the text of an AIError
IsRateLimitError(text) == text = "AIError: rate limit"

\* _generate_module_cards, lines 244-249: get_module_prompt (a missing prompt
\* raises PromptNotFoundError inside the loop's try), send_message and
\* _parse_cards.
\* The gateway answers with n valid cards, or raises an AIError (whose text
\* names a rate limit or not), or its answer makes _parse_cards raise an
\* exception that is not an AIError (a JSON array, a card that is a number).
GCallGateway ==
  /\ pc = "g_call"
  /\ UNCHANGED <<env, probe>>
  /\ LET m == inv.sel[inv.idx]
     IN \/ /\ ~PromptFound("generate", m)
           /\ inv' = [inv EXCEPT !.err = "PromptNotFoundError"]
           /\ pc' = "g_fail_other"
           /\ obs' = [obs EXCEPT !.raised = Append(@, <<m, "PromptNotFoundError">>)]
        \/ \E n \in env.sizes["generate"] :
             /\ PromptFound("generate", m)
             /\ inv' = [inv EXCEPT !.n = n, !.k = 0]
             /\ pc' = IF n = 0 THEN "g_complete" ELSE "g_save"
             /\ obs' = [obs EXCEPT !.sent = Append(@, m)]
        \/ \E text \in {"AIError", "AIError: rate limit"} :
             /\ PromptFound("generate", m)
             /\ inv.op \in env.faulty
             /\ inv' = [inv EXCEPT !.err = text]
             /\ pc' = IF IsRateLimitError(text) THEN "g_wait" ELSE "g_fail_ai"
             /\ obs' = [obs EXCEPT !.sent = Append(@, m),
                                   !.raised = Append(@, <<m, "AIError">>)]
        \/ /\ PromptFound("generate", m)
           /\ inv.op \in env.faulty
           /\ inv' = [inv EXCEPT !.err = "Exception"]
           /\ pc' = "g_fail_other"
           /\ obs' = [obs EXCEPT !.sent = Append(@, m),
                                 !.raised = Append(@, <<m, "Exception">>)]
  /\ UNCHANGED <<latest, fs, nruns, nids, ret>>
  /\ GatewayStep("send_message")

\* The answers of check_usage: no reset time, or a reset time "{h}h{m}m{s}s"
UsageAnswers ==
  {None} \cup {Some([h |-> h, m |-> m, s |-> s]) : h \in 0..1, m \in 0..1, s \in 0..1}

\* _parse_reset_time: the seconds a reset time stands for
ParseResetTime(t) == t.h * 3600 + t.m * 60 + t.s

\* _handle_rate_limit: the seconds to wait, from the answer of check_usage
HandleRateLimit(usage) ==
  IF IsSome(usage) /\ ParseResetTime(Val(usage)) > 0
  THEN ParseResetTime(Val(usage)) + 10
  ELSE 300

\* Lines 297-300: _handle_rate_limit, then time.sleep(wait_time) when the
\* wait is positive; otherwise the error is recorded without a retry.
GWaitRateLimit ==
  /\ pc = "g_wait"
  /\ UNCHANGED <<env, gw, probe>>
  /\ \E usage \in UsageAnswers :
        pc' = IF HandleRateLimit(usage) > 0 THEN "g_retry" ELSE "g_fail_ai"
  /\ UNCHANGED <<latest, fs, nruns, nids, inv, ret, obs>>

\* A faulty variant of GRetryGateway: a gateway error of the retry leads to
\* another retry.
GRetryGatewayAgain ==
  /\ pc = "g_retry"
  /\ UNCHANGED <<env, probe>>
  /\ LET m == inv.sel[inv.idx]
     IN \/ \E n \in env.sizes["generate"] :
             /\ inv' = [inv EXCEPT !.n = n, !.k = 0]
             /\ pc' = IF n = 0 THEN "g_complete" ELSE "g_save"
             /\ obs' = [obs EXCEPT !.sent = Append(@, m)]
             /\ UNCHANGED ret
        \/ /\ pc' = IF Len(obs.sent) < 3 THEN "g_retry" ELSE "g_fail_ai"
           /\ obs' = [obs EXCEPT !.sent = Append(@, m),
                                 !.raised = Append(@, <<m, "AIError">>)]
           /\ UNCHANGED <<inv, ret>>
  /\ UNCHANGED <<latest, fs, nruns, nids>>
  /\ GatewayStep("send_message")

\* The retry after the wait, lines 303-312, inside "try ... except AIError"
\* of the AIError handler: an AIError falls through to the failed mark; any
\* other exception leaves generate_cards (the sibling "except Exception" of
\* the outer try does not cover its handlers).
GRetryGateway ==
  /\ pc = "g_retry"
  /\ UNCHANGED <<env, probe>>
  /\ LET m == inv.sel[inv.idx]
     IN \/ \E n \in env.sizes["generate"] :
             /\ inv' = [inv EXCEPT !.n = n, !.k = 0]
             /\ pc' = IF n = 0 THEN "g_complete" ELSE "g_save"
             /\ obs' = [obs EXCEPT !.sent = Append(@, m)]
             /\ UNCHANGED ret
        \/ /\ pc' = "g_fail_ai"
           /\ obs' = [obs EXCEPT !.sent = Append(@, m),
                                 !.raised = Append(@, <<m, "AIError">>)]
           /\ UNCHANGED <<inv, ret>>
        \/ /\ pc' = "idle"
           /\ ret' = ErrRet("Exception")
           /\ inv' = IdleInv
           /\ obs' = [obs EXCEPT !.sent = Append(@, m),
                                 !.raised = Append(@, <<m, "Exception">>)]
  /\ UNCHANGED <<latest, fs, nruns, nids>>
  /\ GatewayStep("send_message")

\* save_card(..., f"card-{idx}", card) for the next card (lines 252-260, 314-322)
GSaveCard ==
  /\ pc = "g_save"
  /\ UNCHANGED <<env, gw, probe>>
  /\ LET m == inv.sel[inv.idx]
         i == inv.k + 1
     IN /\ fs' = [fs EXCEPT ![latest].cards.gcards[inv.ct][m] =
                                IF @ > i THEN @ ELSE i]
        /\ inv' = [inv EXCEPT !.k = i]
        /\ pc' = IF i = inv.n THEN "g_complete" ELSE "g_save"
  /\ UNCHANGED <<latest, nruns, nids, ret, obs>>

\* update_module_status(..., "completed", cards_count=len(cards)), lines 263-269
\* and 324-329
\* The session id of the gateway is to be saved (lines 272-274): the module
\* was completed by its first call, the gateway has get_session_id, and its
\* session id is set and is not the one saved
SessionToSave ==
  /\ inv.err = ""
  /\ env.gateway = "session"
  /\ IsSome(gw.session_id) /\ gw.session_id /= inv.saved

GMarkCompleted ==
  /\ pc = "g_complete"
  /\ UNCHANGED <<env, gw, probe>>
  /\ LET m == inv.sel[inv.idx]
     IN /\ fs' = [fs EXCEPT ![latest].cards.gtrack[inv.ct] =
                    Some(UpdateModuleStatus(@, m, "completed", inv.n, ""))]
        /\ inv' = [inv EXCEPT !.processed = Append(@, m), !.idx = @ + 1]
  /\ pc' = IF SessionToSave THEN "g_sess" ELSE GNextPc
  /\ UNCHANGED <<latest, nruns, nids, ret, obs>>

\* update_session_id(document_id, card_type, current_session_id), lines 275-278
GSaveSession ==
  /\ pc = "g_sess"
  /\ UNCHANGED <<env, gw, probe>>
  /\ fs' = [fs EXCEPT ![latest].cards.gtrack[inv.ct] =
              Some([(IF IsSome(@) THEN Val(@) ELSE CreateEmptyTracking)
                      EXCEPT !.session_id = gw.session_id])]
  /\ inv' = [inv EXCEPT !.saved = gw.session_id]
  /\ pc' = IF inv.idx > Len(inv.sel) THEN "g_meta" ELSE "g_mark"
  /\ UNCHANGED <<latest, nruns, nids, ret, obs>>

\* lines 339-344: mark failed with str(e) of the first error, re-raise
GMarkFailedAI ==
  /\ pc = "g_fail_ai"
  /\ UNCHANGED <<env, gw, probe>>
  /\ LET m == inv.sel[inv.idx]
     IN fs' = [fs EXCEPT ![latest].cards.gtrack[inv.ct] =
                 Some(UpdateModuleStatus(@, m, "failed", 0, inv.err))]
  /\ pc' = "idle"
  /\ ret' = ErrRet("AIError")
  /\ inv' = IdleInv
  /\ UNCHANGED <<latest, nruns, nids, obs>>

\* except Exception: mark failed, continue (lines 346-353)
GMarkFailedOther ==
  /\ pc = "g_fail_other"
  /\ UNCHANGED <<env, gw, probe>>
  /\ LET m == inv.sel[inv.idx]
     IN fs' = [fs EXCEPT ![latest].cards.gtrack[inv.ct] =
                 Some(UpdateModuleStatus(@, m, "failed", 0, inv.err))]
  /\ inv' = [inv EXCEPT !.idx = @ + 1]
  /\ pc' = GNextPc
  /\ UNCHANGED <<latest, nruns, nids, ret, obs>>

\* save_generation_metadata and the return, lines 355-378
GSaveMetadata ==
  /\ pc = "g_meta"
  /\ UNCHANGED <<env, gw, probe>>
  /\ LET meta == [id |-> nids["generate"] + 1, restructuration_id |-> inv.up,
                  card_type |-> inv.ct, processed |-> inv.processed,
                  analysis_id |-> GetLatestAnalysisId]
     IN /\ fs' = [fs EXCEPT ![latest].cards.cardsDir = TRUE,
                            ![latest].cards.gmeta[inv.ct] = Some(meta)]
        /\ ret' = OkRet(Some(meta))
  /\ nids' = [nids EXCEPT !["generate"] = @ + 1]
  /\ pc' = "idle"
  /\ inv' = IdleInv
  /\ UNCHANGED <<latest, nruns, obs>>

\* delete_generation(generation_id), lines 610-620
DeleteGeneration(id) ==
  /\ pc = "idle"
  /\ UNCHANGED <<env, gw, probe>>
  /\ "delete_generation" \in env.ops
  /\ LET result == GFindById(id)
         absent == latest = NoRun \/ ~fs[latest].cards.cardsDir
     IN
     IF id = EmptyId
     THEN EndAtEntry("delete_generation", FALSE, ErrRet("DomainValidationError"))
     ELSE IF ~IsSome(result)
     THEN EndAtEntry("delete_generation", FALSE, ErrRet("GenerationNotFoundError"))
     ELSE /\ pc' = IF absent THEN "idle" ELSE "g_del_meta"
          /\ inv' = IF absent THEN IdleInv
                    ELSE [IdleInv EXCEPT !.op = "delete_generation", !.up = id,
                                         !.ct = Val(result).card_type]
          /\ ret' = IF absent THEN OkRet(Deleted(FALSE)) ELSE NoRet
          /\ obs' = [NewObs("delete_generation", FALSE, <<>>, FALSE) EXCEPT
                       !.ct = Val(result).card_type]
          /\ UNCHANGED <<latest, fs, nruns, nids>>

(* =========================== stage 4: optimize ========================= *)
\* JsonOptimizedCardsStorage.get_tracking(document_id, card_type)
OGetTracking(ct) == IF latest = NoRun THEN None ELSE fs[latest].cards.otrack[ct]

\* JsonOptimizedCardsStorage.get_optimization_metadata(document_id, card_type)
OGetMetadata(ct) ==
  IF latest = NoRun \/ ~fs[latest].cards.optDir THEN None
  ELSE fs[latest].cards.ometa[ct]

\* JsonOptimizedCardsStorage.exists_for_generation
OExistsForGeneration(ct) == IsSome(OGetMetadata(ct))

\* JsonOptimizedCardsStorage.find_by_id
OFindById(id) ==
  LET hits(c) == {r \in Runs : IsSome(fs[r].cards.ometa[c])
                                /\ Val(fs[r].cards.ometa[c]).id = id}
  IN IF hits("basic") /= {} THEN fs[CHOOSE r \in hits("basic") : TRUE].cards.ometa["basic"]
     ELSE IF hits("cloze") /= {}
     THEN fs[CHOOSE r \in hits("cloze") : TRUE].cards.ometa["cloze"]
     ELSE None

\* len(JsonCardsStorage.get_cards(document_id, card_type, module))
GetCards(ct, m) == IF latest = NoRun THEN 0 ELSE fs[latest].cards.gcards[ct][m]

\* Where optimize_cards goes once the entry checks and the delete are done:
\* the module loop, or the metadata when the generation lists no module.
OLoopPc(sel) == IF sel = <<>> THEN "o_meta" ELSE "o_mark"

\* optimize_cards, lines 105-147 up to the first store write.
OptimizeStart(gid, force) ==
  /\ pc = "idle"
  /\ UNCHANGED <<env, gw, probe>>
  /\ "optimize" \in env.ops
  /\ force => "optimize" \in env.forced
  /\ nids["optimize"] < MaxIds
  /\ LET generation == GFindById(gid)
         ct == IF IsSome(generation) THEN Val(generation).card_type ELSE "basic"
         modules == IF IsSome(generation) THEN Val(generation).processed ELSE <<>>
         tracking == OGetTracking(ct)
     IN
     IF gid = EmptyId
     THEN EndAtEntry("optimize", force, ErrRet("DomainValidationError"))
     ELSE IF ~IsSome(generation)
     THEN EndAtEntry("optimize", force, ErrRet("GenerationNotFoundError"))
     ELSE IF ~force /\ OExistsForGeneration(ct)
     THEN EndAtEntry("optimize", force, ErrRet("OptimizationAlreadyExistsError"))
     ELSE /\ pc' = IF force /\ latest /= NoRun /\ fs[latest].cards.optDir
                   THEN "o_del_meta" ELSE OLoopPc(modules)
          /\ inv' = [IdleInv EXCEPT !.op = "optimize", !.force = force,
                                    !.up = gid, !.ct = ct, !.sel = modules, !.idx = 1]
          /\ ret' = NoRet
          /\ obs' = [NewObs("optimize", force, modules, FALSE) EXCEPT
                       !.ct = ct, !.requested = modules,
                       !.entryTracking = tracking,
                       !.entryMeta = OGetMetadata(ct),
                       !.afterKill = (ret.kind = "killed" /\ obs.op = "optimize")]
          /\ UNCHANGED <<latest, fs, nruns, nids>>

\* JsonOptimizedCardsStorage.delete: unlink optimization-{ct}.json
ODeleteMeta ==
  /\ pc = "o_del_meta"
  /\ UNCHANGED <<env, gw, probe>>
  /\ fs' = [fs EXCEPT ![latest].cards.ometa[inv.ct] = None]
  /\ pc' = "o_del_track"
  /\ UNCHANGED <<latest, nruns, nids, inv, ret, obs>>

\* JsonOptimizedCardsStorage.delete: unlink tracking-{ct}.json
ODeleteTracking ==
  /\ pc = "o_del_track"
  /\ UNCHANGED <<env, gw, probe>>
  /\ fs' = [fs EXCEPT ![latest].cards.otrack[inv.ct] = None]
  /\ pc' = "o_del_dir"
  /\ UNCHANGED <<latest, nruns, nids, inv, ret, obs>>

\* JsonOptimizedCardsStorage.delete: rmtree optimized/{ct}
ODeleteDir ==
  /\ pc = "o_del_dir"
  /\ UNCHANGED <<env, gw, probe>>
  /\ fs' = [fs EXCEPT ![latest].cards.ocards[inv.ct] = NoCounts]
  /\ pc' = OLoopPc(inv.sel)
  /\ UNCHANGED <<latest, nruns, nids, inv, ret, obs>>

\* update_module_status(..., "in_progress"), lines 165-167, and the read of
\* the module's generated cards, line 171
OMarkInProgress ==
  /\ pc = "o_mark"
  /\ UNCHANGED <<env, gw, probe>>
  /\ LET m == inv.sel[inv.idx]
     IN /\ fs' = [fs EXCEPT ![latest].cards.cardsDir = TRUE,
                            ![latest].cards.optDir = TRUE,
                            ![latest].cards.otrack[inv.ct] =
                               Some(UpdateModuleStatus(@, m, "in_progress", 0, ""))]
        /\ obs' = [obs EXCEPT !.started = Append(@, m)]
        /\ pc' = IF GetCards(inv.ct, m) = 0 THEN "o_empty" ELSE "o_call"
  /\ inv' = [inv EXCEPT !.n = 0, !.k = 0, !.err = ""]
  /\ UNCHANGED <<latest, nruns, nids, ret>>

\* Where the module loop goes after the module at inv.idx.
ONextPc == IF inv.idx = Len(inv.sel) THEN "o_meta" ELSE "o_mark"

\* "Module sans cartes": completed with no card, continue (lines 173-179)
OMarkEmptyCompleted ==
  /\ pc = "o_empty"
  /\ UNCHANGED <<env, gw, probe>>
  /\ LET m == inv.sel[inv.idx]
     IN fs' = [fs EXCEPT ![latest].cards.otrack[inv.ct] =
                 Some(UpdateModuleStatus(@, m, "completed", 0, ""))]
  /\ inv' = [inv EXCEPT !.idx = @ + 1]
  /\ pc' = ONextPc
  /\ UNCHANGED <<latest, nruns, nids, ret, obs>>

\* _optimize_module_cards, lines 187-194: send_message and
\* _parse_optimized_cards
OCallGateway ==
  /\ pc = "o_call"
  /\ UNCHANGED <<env, probe>>
  /\ LET m == inv.sel[inv.idx]
     IN \/ \E n \in env.sizes["optimize"] :
             /\ inv' = [inv EXCEPT !.n = n, !.k = 0]
             /\ pc' = IF n = 0 THEN "o_complete" ELSE "o_save"
             /\ obs' = [obs EXCEPT !.sent = Append(@, m)]
        \/ /\ inv.op \in env.faulty
           /\ inv' = [inv EXCEPT !.err = "AIError"]
           /\ pc' = "o_fail_ai"
           /\ obs' = [obs EXCEPT !.sent = Append(@, m),
                                 !.raised = Append(@, <<m, "AIError">>)]
        \/ /\ inv.op \in env.faulty
           /\ inv' = [inv EXCEPT !.err = "Exception"]
           /\ pc' = "o_fail_other"
           /\ obs' = [obs EXCEPT !.sent = Append(@, m),
                                 !.raised = Append(@, <<m, "Exception">>)]
  /\ UNCHANGED <<latest, fs, nruns, nids, ret>>
  /\ GatewayStep("send_message")

\* save_optimized_card(..., f"card-{idx}", card), lines 197-205
OSaveCard ==
  /\ pc = "o_save"
  /\ UNCHANGED <<env, gw, probe>>
  /\ LET m == inv.sel[inv.idx]
         i == inv.k + 1
     IN /\ fs' = [fs EXCEPT ![latest].cards.ocards[inv.ct][m] =
                                IF @ > i THEN @ ELSE i]
        /\ inv' = [inv EXCEPT !.k = i]
        /\ pc' = IF i = inv.n THEN "o_complete" ELSE "o_save"
  /\ UNCHANGED <<latest, nruns, nids, ret, obs>>

\* update_module_status(..., "completed", ...), lines 210-221
OMarkCompleted ==
  /\ pc = "o_complete"
  /\ UNCHANGED <<env, gw, probe>>
  /\ LET m == inv.sel[inv.idx]
     IN /\ fs' = [fs EXCEPT ![latest].cards.otrack[inv.ct] =
                    Some(UpdateModuleStatus(@, m, "completed", inv.n, ""))]
        /\ inv' = [inv EXCEPT !.processed = Append(@, m), !.idx = @ + 1]
  /\ pc' = ONextPc
  /\ UNCHANGED <<latest, nruns, nids, ret, obs>>

\* except AIError: mark failed, re-raise (lines 230-237)
OMarkFailedAI ==
  /\ pc = "o_fail_ai"
  /\ UNCHANGED <<env, gw, probe>>
  /\ LET m == inv.sel[inv.idx]
     IN fs' = [fs EXCEPT ![latest].cards.otrack[inv.ct] =
                 Some(UpdateModuleStatus(@, m, "failed", 0, inv.err))]
  /\ pc' = "idle"
  /\ ret' = ErrRet("AIError")
  /\ inv' = IdleInv
  /\ UNCHANGED <<latest, nruns, nids, obs>>

\* except Exception: mark failed, continue (lines 239-246)
OMarkFailedOther ==
  /\ pc = "o_fail_other"
  /\ UNCHANGED <<env, gw, probe>>
  /\ LET m == inv.sel[inv.idx]
     IN fs' = [fs EXCEPT ![latest].cards.otrack[inv.ct] =
                 Some(UpdateModuleStatus(@, m, "failed", 0, inv.err))]
  /\ inv' = [inv EXCEPT !.idx = @ + 1]
  /\ pc' = ONextPc
  /\ UNCHANGED <<latest, nruns, nids, ret, obs>>

\* save_optimization_metadata and the return, lines 248-278
OSaveMetadata ==
  /\ pc = "o_meta"
  /\ UNCHANGED <<env, gw, probe>>
  /\ LET meta == [id |-> nids["optimize"] + 1, generation_id |-> inv.up,
                  card_type |-> inv.ct, processed |-> inv.processed,
                  analysis_id |-> GetLatestAnalysisId]
     IN /\ fs' = [fs EXCEPT ![latest].cards.cardsDir = TRUE,
                            ![latest].cards.optDir = TRUE,
                            ![latest].cards.ometa[inv.ct] = Some(meta)]
        /\ ret' = OkRet(Some(meta))
  /\ nids' = [nids EXCEPT !["optimize"] = @ + 1]
  /\ pc' = "idle"
  /\ inv' = IdleInv
  /\ UNCHANGED <<latest, nruns, obs>>

(* ============================ stage 5: format ========================== *)
\* AnkiFormattedStorage.get_formatting_metadata(document_id, card_type)
FGetMetadata(ct) ==
  IF latest = NoRun \/ ~fs[latest].cards.ankiDir THEN None
  ELSE fs[latest].cards.fmeta[ct]

\* AnkiFormattedStorage.exists_for_optimization
FExistsForOptimization(ct) == IsSome(FGetMetadata(ct))

RECURSIVE SumCounts(_, _)
\* The number of files card-*.json under the module directories ms
SumCounts(counts, ms) ==
  IF ms = {} THEN 0
  ELSE LET m == CHOOSE x \in ms : TRUE
       IN counts[m] + SumCounts(counts, ms \ {m})

\* len(JsonOptimizedCardsStorage.get_optimized_cards(document_id, card_type))
GetOptimizedCards(ct) ==
  IF latest = NoRun THEN 0 ELSE SumCounts(fs[latest].cards.ocards[ct], ModuleSet)

\* format_cards, lines 96-145 up to the first store access.
FormatStart(oid, force) ==
  /\ pc = "idle"
  /\ UNCHANGED <<env, gw, probe>>
  /\ "format" \in env.ops
  /\ force => "format" \in env.forced
  /\ nids["format"] < MaxIds
  /\ LET optimization == OFindById(oid)
         ct == IF IsSome(optimization) THEN Val(optimization).card_type ELSE "basic"
     IN
     IF oid = EmptyId
     THEN EndAtEntry("format", force, ErrRet("DomainValidationError"))
     ELSE IF ~IsSome(optimization)
     THEN EndAtEntry("format", force, ErrRet("OptimizationNotFoundError"))
     ELSE IF ~force /\ FExistsForOptimization(ct)
     THEN EndAtEntry("format", force, ErrRet("FormattingAlreadyExistsError"))
     ELSE /\ pc' = IF force /\ latest /= NoRun /\ fs[latest].cards.ankiDir
                   THEN "f_del_meta" ELSE "f_cards"
          /\ inv' = [IdleInv EXCEPT !.op = "format", !.force = force,
                                    !.up = oid, !.ct = ct]
          /\ ret' = NoRet
          /\ obs' = [NewObs("format", force, <<>>, FALSE) EXCEPT
                       !.ct = ct, !.entryMeta = FGetMetadata(ct),
                       !.afterKill = (ret.kind = "killed" /\ obs.op = "format")]
          /\ UNCHANGED <<latest, fs, nruns, nids>>

\* AnkiFormattedStorage.delete: unlink formatting-{ct}.json
FDeleteMeta ==
  /\ pc = "f_del_meta"
  /\ UNCHANGED <<env, gw, probe>>
  /\ fs' = [fs EXCEPT ![latest].cards.fmeta[inv.ct] = None]
  /\ pc' = "f_del_file"
  /\ UNCHANGED <<latest, nruns, nids, inv, ret, obs>>

\* AnkiFormattedStorage.delete: unlink the .txt file
FDeleteFile ==
  /\ pc = "f_del_file"
  /\ UNCHANGED <<env, gw, probe>>
  /\ fs' = [fs EXCEPT ![latest].cards.ffile[inv.ct] = None]
  /\ pc' = "f_cards"
  /\ UNCHANGED <<latest, nruns, nids, inv, ret, obs>>

\* get_optimized_cards and the guard "if not all_cards", lines 148-155
FReadCards ==
  /\ pc = "f_cards"
  /\ UNCHANGED <<env, gw, probe>>
  /\ IF GetOptimizedCards(inv.ct) = 0
     THEN /\ pc' = "idle"
          /\ ret' = ErrRet("DomainValidationError")
          /\ inv' = IdleInv
     ELSE /\ pc' = "f_call"
          /\ inv' = [inv EXCEPT !.n = GetOptimizedCards(inv.ct)]
          /\ UNCHANGED ret
  /\ UNCHANGED <<latest, fs, nruns, nids, obs>>

\* send_message and _extract_formatted_content, lines 175-192: the answer
\* holds k card lines, or the gateway raises AIError
FCallGateway ==
  /\ pc = "f_call"
  /\ UNCHANGED <<env, probe>>
  /\ \/ \E k \in env.sizes["format"] :
          /\ inv' = [inv EXCEPT !.k = k]
          /\ pc' = "f_save"
          /\ obs' = [obs EXCEPT !.sent = Append(@, "cards")]
          /\ UNCHANGED ret
     \/ /\ inv.op \in env.faulty
        /\ pc' = "idle"
        /\ ret' = ErrRet("AIError")
        /\ inv' = IdleInv
        /\ obs' = [obs EXCEPT !.sent = Append(@, "cards"),
                              !.raised = Append(@, <<"cards", "AIError">>)]
  /\ UNCHANGED <<latest, fs, nruns, nids>>
  /\ GatewayStep("send_message")

\* save_formatted_file, lines 195-199
FSaveFile ==
  /\ pc = "f_save"
  /\ UNCHANGED <<env, gw, probe>>
  /\ fs' = [fs EXCEPT ![latest].cards.cardsDir = TRUE,
                      ![latest].cards.ankiDir = TRUE,
                      ![latest].cards.ffile[inv.ct] = Some([cards |-> inv.k])]
  /\ pc' = "f_meta"
  /\ UNCHANGED <<latest, nruns, nids, inv, ret, obs>>

\* save_formatting_metadata and the return, lines 201-228
FSaveMetadata ==
  /\ pc = "f_meta"
  /\ UNCHANGED <<env, gw, probe>>
  /\ LET meta == [id |-> nids["format"] + 1, optimization_id |-> inv.up,
                  card_type |-> inv.ct, cards_count |-> inv.k,
                  analysis_id |-> GetLatestAnalysisId]
     IN /\ fs' = [fs EXCEPT ![latest].cards.cardsDir = TRUE,
                            ![latest].cards.ankiDir = TRUE,
                            ![latest].cards.fmeta[inv.ct] = Some(meta)]
        /\ ret' = OkRet(Some(meta))
  /\ nids' = [nids EXCEPT !["format"] = @ + 1]
  /\ pc' = "idle"
  /\ inv' = IdleInv
  /\ UNCHANGED <<latest, nruns, obs>>

(* ============================ process termination ====================== *)
\* The process is terminated between two steps of an invocation.
Kill ==
  /\ pc /= "idle"
  /\ UNCHANGED <<env, probe>>
  /\ inv.op \in env.killed
  /\ pc' = "idle"
  /\ inv' = IdleInv
  /\ ret' = KilledRet
  /\ gw' = [GwInit EXCEPT !.nsid = gw.nsid]
  /\ UNCHANGED <<latest, fs, nruns, nids, obs>>

(* ============================ specifications =========================== *)

AnalyzeSteps ==
  \/ \E force \in BOOLEAN : AnalyzeStart(force)
  \/ AnalyzeCallGateway
  \/ AnalysisSaveRecord
  \/ AnalysisUpdateLatest
  \/ \E aid \in {EmptyId} \cup Runs : DeleteAnalysis(aid)
  \/ DeleteUpdateLatest

RestructureSteps ==
  \/ \E aid \in {EmptyId} \cup Runs, force \in BOOLEAN : RestructureStart(aid, force)
  \/ RDeleteMeta
  \/ RDeleteDir
  \/ RInitTracking
  \/ RMarkInProgress
  \/ RCallGateway
  \/ RSaveItem
  \/ RMarkCompleted
  \/ RMarkFailedAI
  \/ RMarkFailedOther
  \/ RSaveMetadata
  \/ \E id \in {EmptyId} \cup Ids : DeleteRestructuration(id)

\* The card types and module lists callers pass.
CardTypeInputs == VALID_CARD_TYPES \cup {"image"}

GenerateSteps ==
  \/ \E rid \in {EmptyId} \cup Ids, ct \in CardTypeInputs, modules \in env.modules,
        force \in BOOLEAN : GenerateStart(rid, ct, modules, force)
  \/ GDeleteMeta
  \/ GDeleteTracking
  \/ GDeleteDir
  \/ GInitTracking
  \/ GMarkInProgress
  \/ GMarkEmptyCompleted
  \/ GCallGateway
  \/ GWaitRateLimit
  \/ GSaveSession
  \/ GRetryGateway
  \/ GSaveCard
  \/ GMarkCompleted
  \/ GMarkFailedAI
  \/ GMarkFailedOther
  \/ GSaveMetadata
  \/ \E id \in {EmptyId} \cup Ids : DeleteGeneration(id)

OptimizeSteps ==
  \/ \E gid \in {EmptyId} \cup Ids, force \in BOOLEAN : OptimizeStart(gid, force)
  \/ ODeleteMeta
  \/ ODeleteTracking
  \/ ODeleteDir
  \/ OMarkInProgress
  \/ OMarkEmptyCompleted
  \/ OCallGateway
  \/ OSaveCard
  \/ OMarkCompleted
  \/ OMarkFailedAI
  \/ OMarkFailedOther
  \/ OSaveMetadata

FormatSteps ==
  \/ \E oid \in {EmptyId} \cup Ids, force \in BOOLEAN : FormatStart(oid, force)
  \/ FDeleteMeta
  \/ FDeleteFile
  \/ FReadCards
  \/ FCallGateway
  \/ FSaveFile
  \/ FSaveMetadata

Next ==
  \/ AnalyzeSteps
  \/ RestructureSteps
  \/ GenerateSteps
  \/ OptimizeSteps
  \/ FormatSteps
  \/ Kill

Spec == Init /\ [][Next]_vars

(* =============================== properties ============================ *)
\* The files of a stage in the run cur of a store: the ledger, the metadata,
\* and the number of artifact files of each module.
LedgerIn(store, cur, op, ct) ==
  IF cur = NoRun THEN None
  ELSE CASE op = "restructure" -> store[cur].rtrack
         [] op = "generate" -> store[cur].cards.gtrack[ct]
         [] op = "optimize" -> store[cur].cards.otrack[ct]
         [] OTHER -> None

MetadataIn(store, cur, op, ct) ==
  IF cur = NoRun THEN None
  ELSE CASE op = "restructure" -> store[cur].rmeta
         [] op = "generate" -> store[cur].cards.gmeta[ct]
         [] op = "optimize" -> store[cur].cards.ometa[ct]
         [] op = "format" -> store[cur].cards.fmeta[ct]
         [] OTHER -> None

ArtifactsIn(store, cur, op, ct) ==
  IF cur = NoRun THEN NoCounts
  ELSE CASE op = "restructure" -> store[cur].ritems
         [] op = "generate" -> store[cur].cards.gcards[ct]
         [] op = "optimize" -> store[cur].cards.ocards[ct]
         [] OTHER -> NoCounts

\* The same files in the latest run of the current store
LedgerFile(op, ct) == LedgerIn(fs, latest, op, ct)
MetadataFile(op, ct) == MetadataIn(fs, latest, op, ct)
ArtifactFiles(op, ct) == ArtifactsIn(fs, latest, op, ct)

\* The status a ledger records for module m ("absent": no ledger, or no entry)
StatusIn(track, m) ==
  IF IsSome(track) /\ m \in DOMAIN Val(track).modules
  THEN Val(track).modules[m].status ELSE "absent"

\* The whole entry a ledger records for module m
EntryIn(track, m) ==
  IF IsSome(track) /\ m \in DOMAIN Val(track).modules
  THEN Val(track).modules[m] ELSE Entry("absent", 0, "")

DoneIn(track) == {m \in ModuleSet : StatusIn(track, m) = "completed"}

IsPrefix(s, t) == Len(s) <= Len(t) /\ \A i \in 1..Len(s) : s[i] = t[i]
Last(s) == s[Len(s)]

ResumableOps == {"restructure", "generate"}
LedgerOps == {"restructure", "generate", "optimize"}

\* The invocation observed has ended by returning normally.
Returned == pc = "idle" /\ ret.kind = "ok"

\* The invocation observed is a resume: no force, and a ledger existed.
Resuming ==
  obs.op \in ResumableOps /\ ~obs.force /\ IsSome(obs.entryTracking)

\* The requested modules the entry ledger does not have as completed, in order
NotDoneAtEntry == FilterSeq(obs.requested, ModuleSet \ DoneIn(obs.entryTracking))

\* The number of input units a stage finds for module m (the document itself
\* for restructure, the restructured items for generate)
InputOf(op, m) == IF op = "generate" THEN fs[latest].ritems[m] ELSE 1

\* The stage reaches its gateway call for module m: the module has input and
\* the prompt store holds the module's prompt
Sendable(op, m) == InputOf(op, m) > 0 /\ PromptFound(op, m)

(* ---- C1 ---- *)
\* C1 as the specification states it: a resume that returns normally has set
\* in_progress, and has sent to the gateway, exactly the requested modules
\* that the ledger did not have as completed.
C1_ResumeSendsAllNotCompleted ==
  (Returned /\ Resuming) =>
     /\ SeqToSet(obs.started) = SeqToSet(NotDoneAtEntry)
     /\ SeqToSet(obs.sent) = SeqToSet(NotDoneAtEntry)

C1_ResumeState ==
  Resuming =>
     /\ IsPrefix(obs.started, NotDoneAtEntry)
     /\ SeqToSet(obs.sent) \subseteq SeqToSet(obs.started)
     /\ \A m \in SeqToSet(obs.sent) : Sendable(obs.op, m)
     /\ Returned =>
          /\ obs.started = NotDoneAtEntry
          /\ SeqToSet(obs.sent) =
               {m \in SeqToSet(NotDoneAtEntry) : Sendable(obs.op, m)}

C1_ResumeStep ==
  (Resuming /\ pc /= "idle") =>
     \A m \in DoneIn(obs.entryTracking) :
        /\ EntryIn(LedgerIn(fs', latest', obs.op, obs.ct), m)
             = EntryIn(LedgerFile(obs.op, obs.ct), m)
        /\ ArtifactsIn(fs', latest', obs.op, obs.ct)[m]
             = ArtifactFiles(obs.op, obs.ct)[m]

\* C1, amended: during a resume of restructure_document or generate_cards
\* (force=false, a ledger exists) the modules set in_progress are, in order,
\* the requested modules the ledger did not have as completed (all of them
\* once the invocation returns normally); each is sent to the gateway unless
\* it has no input (generate_cards completes a module without restructured
\* items with zero cards and no gateway call) or its prompt is missing from
\* the prompt store (the module is recorded failed); and no step of the invocation
\* changes the ledger entry or the artifacts of a module that was completed.
C1_IdempotentResume == []C1_ResumeState /\ [][C1_ResumeStep]_vars

\* C1 witness: a resume that had a completed module to skip and a failed
\* module to retry has returned normally.
C1_Witness ==
  /\ Returned /\ Resuming
  /\ DoneIn(obs.entryTracking) /= {}
  /\ \E m \in ModuleSet : StatusIn(obs.entryTracking, m) = "failed"
                          /\ m \in SeqToSet(obs.sent)

(* ---- C2 ---- *)
\* The position at which a stage starts on its first unit of work
FirstUnitPc(op) ==
  CASE op = "restructure" -> "r_mark"
    [] op = "generate" -> "g_mark"
    [] op = "optimize" -> "o_mark"
    [] op = "format" -> "f_call"
    [] OTHER -> "none"

\* A forced invocation is about to process its first unit.
ForcedAtFirstUnit ==
  obs.op \in Stages /\ obs.force /\ pc = FirstUnitPc(obs.op) /\ obs.started = <<>>

\* C2: when a forced invocation of a stage starts on its first unit, the
\* latest run holds no metadata, no artifact and no ledger status other than
\* pending for that (stage, card type), whatever it held before, and the
\* invocation's work list is the full requested module list; a forced
\* invocation that returns normally has set every requested module
\* in_progress.
C2_ForceSemantics ==
  /\ ForcedAtFirstUnit =>
       /\ ~IsSome(MetadataFile(obs.op, obs.ct))
       /\ \A m \in ModuleSet :
             /\ ArtifactFiles(obs.op, obs.ct)[m] = 0
             /\ StatusIn(LedgerFile(obs.op, obs.ct), m) \in {"pending", "absent"}
       /\ obs.op = "format" => ~IsSome(fs[latest].cards.ffile[obs.ct])
       /\ obs.op \in ResumableOps =>
             LedgerFile(obs.op, obs.ct) = Some(InitTracking(obs.requested))
       /\ obs.work = obs.requested
  /\ (Returned /\ obs.op \in Stages /\ obs.force) => obs.started = obs.requested

\* C2 witness: a forced generate_cards starts on its first module in a run
\* that held generation metadata and a ledger with a completed module.
C2_Witness ==
  /\ ForcedAtFirstUnit
  /\ obs.op = "generate"
  /\ IsSome(obs.entryMeta)
  /\ DoneIn(obs.entryTracking) /= {}

(* ---- C3 ---- *)
\* The invocation observed has ended by raising the gateway error met while
\* processing module m.
AbortedAt(m) ==
  /\ pc = "idle" /\ ret = ErrRet("AIError")
  /\ obs.op \in LedgerOps
  /\ obs.raised /= <<>> /\ Last(obs.raised) = <<m, "AIError">>

\* The modules of the invocation observed whose processing raised an
\* exception that is not a gateway error
RaisedOther == {m \in ModuleSet : \E i \in 1..Len(obs.raised) :
                                     obs.raised[i] = <<m, "Exception">>}

C3_AbortState ==
  \A m \in ModuleSet : AbortedAt(m) =>
     LET ledger == LedgerFile(obs.op, obs.ct)
     IN /\ StatusIn(ledger, m) = "failed"
        /\ EntryIn(ledger, m).error \in {"AIError", "AIError: rate limit"}
        /\ Last(obs.started) = m
        /\ IsPrefix(obs.started, obs.work)
        /\ MetadataFile(obs.op, obs.ct) = (IF obs.force THEN None ELSE obs.entryMeta)
        /\ \A x \in SeqToSet(obs.started) \ ({m} \cup RaisedOther) :
              StatusIn(ledger, x) = "completed"
        /\ Resuming => \A x \in DoneIn(obs.entryTracking) :
              StatusIn(ledger, x) = "completed"

C3_AbortStep ==
  (pc /= "idle" /\ pc' = "idle" /\ ret' = ErrRet("AIError") /\ inv.op \in LedgerOps) =>
     /\ \A x \in ModuleSet \ {inv.sel[inv.idx]} :
           EntryIn(LedgerIn(fs', latest', inv.op, inv.ct), x)
             = EntryIn(LedgerFile(inv.op, inv.ct), x)
     /\ MetadataIn(fs', latest', inv.op, inv.ct) = MetadataFile(inv.op, inv.ct)
     /\ ArtifactsIn(fs', latest', inv.op, inv.ct) = ArtifactFiles(inv.op, inv.ct)

\* C3: when restructure_document, generate_cards or optimize_cards ends by
\* raising the gateway error met on module m, the ledger records m failed
\* with the error text, m is the last module the invocation started, the
\* stage metadata is what it was before the invocation (absent after a
\* forced delete), the modules completed before m are still completed, and
\* the step that records the failure changes no other ledger entry, no
\* metadata and no artifact.
C3_GatewayErrorAborts == []C3_AbortState /\ [][C3_AbortStep]_vars

\* C3 witness: optimize_cards aborted on its second module after completing
\* the first.
C3_Witness ==
  /\ AbortedAt("vocabulary")
  /\ obs.op = "optimize"
  /\ obs.started = <<"themes", "vocabulary">>
  /\ StatusIn(LedgerFile("optimize", obs.ct), "themes") = "completed"

(* ---- C4 ---- *)
\* C4: when the last exception raised in an invocation of restructure_document,
\* generate_cards or optimize_cards is not a gateway error and was raised
\* while processing module m, the invocation returns normally, the ledger
\* records m failed, every module of the work list has been started, and the
\* metadata returned lists none of the modules that raised.
C4_BestEffortPartialSuccess ==
  \A m \in ModuleSet :
     ( /\ pc = "idle" /\ ret.kind /= "killed"
       /\ obs.op \in LedgerOps
       /\ obs.raised /= <<>> /\ Last(obs.raised) = <<m, "Exception">> )
     => /\ ret.kind = "ok"
        /\ StatusIn(LedgerFile(obs.op, obs.ct), m) = "failed"
        /\ obs.started = obs.work
        /\ IsSome(ret.val)
        /\ SeqToSet(Val(ret.val).processed) \cap RaisedOther = {}

(* ---- C5 ---- *)
\* C5: a step that begins restructure_document or generate_cards with
\* force=false while the ledger of the latest run has every requested module
\* completed ends the invocation at once: nothing in the store changes, no
\* gateway call is made, and the value returned is the stage metadata stored
\* in the latest run.
C5_EmptyResumeStep ==
  ( /\ pc = "idle"
    /\ obs' /= obs
    /\ obs'.op \in ResumableOps /\ ~obs'.force
    /\ obs'.requested /= <<>>
    /\ IsSome(obs'.entryTracking)
    /\ SeqToSet(obs'.requested) \subseteq DoneIn(obs'.entryTracking) )
  => /\ pc' = "idle"
     /\ fs' = fs /\ latest' = latest
     /\ obs'.started = <<>> /\ obs'.sent = <<>>
     /\ ret' = OkRet(MetadataFile(obs'.op, obs'.ct))

C6_NoSilentEmptyResult ==
  (Returned /\ obs.op \in ResumableOps) => IsSome(ret.val)

(* ---- C7 ---- *)
\* C7: when restructure_document or generate_cards is re-invoked without
\* force after its previous invocation was terminated, and runs to its normal
\* return with a gateway that raised nothing, every requested module is
\* completed in the ledger and the stage metadata is stored for the run.
C7_ResumeAfterTermination ==
  ( /\ Returned /\ obs.op \in ResumableOps
    /\ ~obs.force /\ obs.afterKill /\ obs.raised = <<>> )
  => /\ IsSome(MetadataFile(obs.op, obs.ct))
     /\ SeqToSet(obs.requested) \subseteq DoneIn(LedgerFile(obs.op, obs.ct))

(* ---- C8 ---- *)
\* C8: an invocation of optimize_cards with force=false never sets in_progress
\* a module that the optimization ledger had as completed when it began.
C8_OptimizeResume ==
  (obs.op = "optimize" /\ ~obs.force) =>
     SeqToSet(obs.started) \cap DoneIn(obs.entryTracking) = {}

(* ---- C9 ---- *)
\* The analyses whose record is stored and whose save has finished
\* No delete_analysis is between its two file operations, nor was one
\* interrupted there
DeletesComplete == pc /= "d_latest" /\ "delete_analysis" \notin env.killed

SavedRuns ==
  {r \in Runs : IsSome(fs[r].analysis) /\ ~(pc = "a_latest" /\ inv.aid = r)}

MaxOf(S) == CHOOSE x \in S : \A y \in S : y <= x

\* Every stored stage output is found by its id, in its own run.
FindableById ==
  \A r \in Runs :
     /\ IsSome(fs[r].analysis) => AnalysisFindById(r) = fs[r].analysis
     /\ IsSome(fs[r].rmeta) => RFindById(Val(fs[r].rmeta).id) = fs[r].rmeta
     /\ \A c \in VALID_CARD_TYPES :
           /\ IsSome(fs[r].cards.gmeta[c]) =>
                 GFindById(Val(fs[r].cards.gmeta[c]).id) = fs[r].cards.gmeta[c]
           /\ IsSome(fs[r].cards.ometa[c]) =>
                 OFindById(Val(fs[r].cards.ometa[c]).id) = fs[r].cards.ometa[c]

C9_State ==
  /\ (SavedRuns /= {} /\ DeletesComplete) => latest = MaxOf(SavedRuns)
  /\ FindableById

\* A step of stages 2 to 5 changes nothing outside the directory of the
\* latest run, and whatever it returns or records at its start it has read
\* from that directory.
C9_Step ==
  /\ \A r \in Runs :
        ( /\ fs'[r] /= fs[r]
          /\ pc /= "a_save"
          /\ ~(pc = "idle" /\ obs'.op = "delete_analysis") ) => r = latest
  /\ (pc = "idle" /\ obs' /= obs /\ obs'.op \in Stages /\ obs'.requested /= <<>>) =>
        /\ obs'.entryTracking = LedgerFile(obs'.op, obs'.ct)
        /\ obs'.entryMeta = MetadataFile(obs'.op, obs'.ct)

\* C9: the latest pointer names the most recent analysis saved; a step of
\* stages 2 to 5 reads and writes only the directory of the latest run, so an
\* older run's analysis record and stage outputs stay as they are; and every
\* stored record is found by its id.
C9_MostRecentWins == []C9_State /\ [][C9_Step]_vars

\* C9 witness: after analyses 1 then 2, with restructure output stored in
\* run 1, the stages up to format have run against run 2.
C9_Witness ==
  /\ latest = 2
  /\ IsSome(fs[1].rmeta)
  /\ IsSome(fs[2].rmeta)
  /\ \E c \in VALID_CARD_TYPES : IsSome(fs[2].cards.fmeta[c])
  /\ fs[1].cards = EmptyCards

(* ---- C10 ---- *)
\* C10: restructure_document invoked with the id of an analysis that is not
\* the latest returns normally with its metadata, ledger and items stored in
\* that analysis's run directory, the latest run's directory left as it was.
C10_ExplicitRunId ==
  ( /\ Returned /\ obs.op = "restructure" /\ IsSome(ret.val)
    /\ obs.aid \in Runs /\ obs.aid /= latest )
  => /\ fs[obs.aid].rmeta = ret.val
     /\ IsSome(fs[obs.aid].rtrack)
     /\ SeqToSet(obs.started) \subseteq DoneIn(fs[obs.aid].rtrack)

(* ---- C11 ---- *)
\* The operations of stages 2 to 5, their deletes included
LaterStageOps == Stages \cup {"delete_restructuration", "delete_generation"}

\* C11: no step of an operation of stages 2 to 5 (run, forced run, resume,
\* delete, or its termination) changes the latest pointer; the only steps
\* that change it are the pointer update that ends the save of an analysis
\* and the deletion of an analysis.
C11_Step ==
  /\ (inv.op \in LaterStageOps \/ (pc = "idle" /\ obs'.op \in LaterStageOps))
        => latest' = latest
  /\ latest' /= latest =>
        (pc = "a_latest" \/ pc = "d_latest")

C11_OnlyStageOneMovesLatest == [][C11_Step]_vars

\* C11 witness: delete_restructuration has removed a restructuration of the
\* latest run and the pointer still names that run.
C11_Witness ==
  /\ pc = "idle"
  /\ obs.op = "delete_restructuration"
  /\ ret = OkRet(Deleted(TRUE))
  /\ latest \in Runs
  /\ IsSome(fs[latest].analysis)

(* ---- C12 ---- *)
\* The analyses stored for the document
StoredAnalyses == {r \in Runs : IsSome(fs[r].analysis)}

\* C12: the step that begins analyze_document with force=false on a document
\* that has an analysis ends it with AnalysisAlreadyExistsError, no gateway
\* call made and the store unchanged; an analyze_document that goes on (force
\* =true included) stores its record under an id that no stored analysis has,
\* leaves the stored analyses as they are, and returns that id, which the
\* latest pointer then names.
C12_Step ==
  /\ ( /\ pc = "idle" /\ obs' /= obs
        /\ obs'.op = "analyze" /\ ~obs'.force
        /\ StoredAnalyses /= {} )
     => /\ pc' = "idle"
        /\ ret' = ErrRet("AnalysisAlreadyExistsError")
        /\ obs'.sent = <<>>
        /\ fs' = fs /\ latest' = latest
  /\ pc = "a_save" =>
        /\ inv.aid \in Runs \ StoredAnalyses
        /\ IsSome(fs'[inv.aid].analysis)
        /\ \A r \in StoredAnalyses : fs'[r] = fs[r]
  /\ (pc = "a_latest" /\ pc' = "idle") =>
        /\ ret'.kind = "ok"
        /\ Val(ret'.val).analysis_id = inv.aid
        /\ latest' = inv.aid

InputErrors ==
  {"DomainValidationError", "AnalysisNotFoundError",
   "RestructurationNotFoundError", "GenerationNotFoundError",
   "OptimizationNotFoundError"}

\* The already-exists error of each stage
AlreadyExistsError(op) ==
  CASE op = "analyze" -> "AnalysisAlreadyExistsError"
    [] op = "restructure" -> "RestructurationAlreadyExistsError"
    [] op = "generate" -> "GenerationAlreadyExistsError"
    [] op = "optimize" -> "OptimizationAlreadyExistsError"
    [] op = "format" -> "FormattingAlreadyExistsError"
    [] OTHER -> "none"

\* A step that begins an invocation of op (it records a new observation)
Begins(op) == pc = "idle" /\ obs' /= obs /\ obs'.op = op

\* C13: the step that begins restructure_document, generate_cards,
\* optimize_cards or format_cards with force=false and arguments that are
\* accepted, while the metadata of the stage (and card type) is stored in the
\* latest run, ends the invocation with the stage's already-exists error and
\* no gateway call.
C13_Step ==
  \A op \in Stages :
     ( /\ Begins(op) /\ ~obs'.force
       /\ ret'.err \notin InputErrors
       /\ IsSome(MetadataFile(op, obs'.ct)) )
     => /\ pc' = "idle"
        /\ ret' = ErrRet(AlreadyExistsError(op))
        /\ obs'.sent = <<>>

C13_AlreadyExistsGuard == [][C13_Step]_vars

(* ---- C14 ---- *)
\* The invocation observed ended by raising a validation, not-found or
\* already-exists error.
Rejected ==
  /\ pc = "idle"
  /\ obs.op \in Stages \cup {"analyze"}
  /\ ret.kind = "error"
  /\ ret.err \in InputErrors \cup {AlreadyExistsError(op) : op \in Stages \cup {"analyze"}}

\* C14: when an invocation of a stage has ended by raising a validation,
\* not-found or already-exists error, it has made no gateway call and the
\* store and the latest pointer are as the invocation found them.
C14_RejectedBeforeAnyWork ==
  Rejected => /\ obs.sent = <<>>
              /\ fs = obs.entryStore
              /\ latest = obs.entryLatest

(* ---- C15 ---- *)
\* The number of gateway calls for module m in the sequence of calls sent
CallsIn(sent, m) == Cardinality({i \in 1..Len(sent) : sent[i] = m})

\* The number of gateway calls the invocation observed has made for module m
CallsFor(m) == CallsIn(obs.sent, m)

\* A gateway error was raised by the step.
RaisesAIError ==
  /\ Len(obs'.raised) = Len(obs.raised) + 1
  /\ Last(obs'.raised)[2] = "AIError"

C15_State ==
  obs.op = "generate" => \A m \in ModuleSet : CallsFor(m) <= 2

C15_GenerateStep ==
  LET m == inv.sel[inv.idx]
      ledger == LedgerIn(fs', latest', "generate", inv.ct)
  IN
  \* the wait follows a first call that raised a rate-limit gateway error
  /\ pc' = "g_wait" =>
        /\ pc = "g_call" /\ RaisesAIError /\ IsRateLimitError(inv'.err)
        /\ CallsIn(obs'.sent, m) = 1
  \* a gateway error that is not rate-limit-shaped is recorded at once
  /\ (pc = "g_call" /\ RaisesAIError /\ ~IsRateLimitError(inv'.err)) =>
        pc' = "g_fail_ai"
  \* the second call follows the wait
  /\ pc' = "g_retry" => pc = "g_wait"
  /\ pc = "g_wait" => (pc' = "g_retry" /\ obs' = obs /\ fs' = fs)
  \* the second call: a gateway error is recorded, an answer is saved
  /\ pc = "g_retry" =>
        /\ CallsIn(obs'.sent, m) = 2
        /\ RaisesAIError => pc' = "g_fail_ai"
        /\ obs'.raised = obs.raised => pc' \in {"g_save", "g_complete"}
  \* the error recorded is the stage's outcome
  /\ pc = "g_fail_ai" =>
        /\ StatusIn(ledger, m) = "failed"
        /\ pc' = "idle" /\ ret' = ErrRet("AIError")
  \* a completed module is followed by the next one
  \* (after the gateway's session id is saved, when the first call completed it)
  /\ pc = "g_complete" =>
        /\ StatusIn(ledger, m) = "completed"
        /\ pc' = (IF inv.err = "" /\ SessionToSave THEN "g_sess"
                  ELSE IF inv.idx = Len(inv.sel) THEN "g_meta" ELSE "g_mark")
        /\ inv'.idx = inv.idx + 1

\* A step that terminates the process is no step of generate_cards.
C15_Step == ret'.kind = "killed" \/ C15_GenerateStep

\* C15: in one invocation of generate_cards the gateway is called at most
\* twice for a module; the second call is made only after the first raised a
\* gateway error whose text names a rate limit and after the wait; a gateway
\* error of the second call is recorded as the module's failure and ends the
\* stage with the gateway error; an answer to the second call is saved, the
\* module completed and the loop goes on; a gateway error that names no rate
\* limit is never retried.
C15_ExactlyOneRetry == []C15_State /\ [][C15_Step]_vars

\* C15 witness: generate_cards returned normally after a module was
\* completed by its second gateway call.
C15_Witness ==
  /\ Returned
  /\ obs.op = "generate"
  /\ \E m \in ModuleSet :
        /\ CallsFor(m) = 2
        /\ StatusIn(LedgerFile("generate", obs.ct), m) = "completed"

(* ---- C16 ---- *)
\* C16: once an invocation has met a prompt that the prompt store lacks, it
\* has ended by raising the prompt-missing error to its caller: it takes no
\* further step and returns no result.
C16_MissingPromptIsFatal ==
  (\E i \in 1..Len(obs.raised) : obs.raised[i][2] = "PromptNotFoundError")
     => /\ pc = "idle"
        /\ ret = ErrRet("PromptNotFoundError")

(* ======================= the gateway's failure modes =================== *)
\* What a call of a gateway finds: whether the attachment file exists,
\* whether the claude executable is found, what the process does (it answers
\* with text, answers with nothing, exits with a non-zero code, or does not
\* answer within the timeout), and, for the interactive gateway, whether a
\* session with the attachment is already active (then the executable was
\* found and the attachment existed).
GatewayWorlds ==
  {w \in [exists : BOOLEAN, found : BOOLEAN, active : BOOLEAN,
          proc : {"text", "empty", "nonzero", "timeout"}] :
     w.active => (w.exists /\ w.found)}

GatewayVariants == {"cli", "session", "interactive"}
GatewayOperations == {"send_message", "send_message_with_pdf"}

\* The outcome of a call
Raises(e) == [kind |-> "raises", what |-> e]
ReturnsText(x) == [kind |-> "returns", what |-> x]

\* ClaudeCliAdapter.send_message: subprocess.run, the return code, then
\* result.stdout.strip() whatever it holds
CliSendMessage(w) ==
  IF ~w.found THEN Raises("AIError")
  ELSE IF w.proc = "timeout" THEN Raises("AIError")
  ELSE IF w.proc = "nonzero" THEN Raises("AIError")
  ELSE ReturnsText(w.proc)

\* ClaudeCliAdapter.send_message_with_pdf: as send_message, with the check
\* "if not result.stdout.strip()"; the path is handed to the tool unchecked
CliSendMessageWithPdf(w) ==
  IF ~w.found THEN Raises("AIError")
  ELSE IF w.proc = "timeout" THEN Raises("AIError")
  ELSE IF w.proc = "nonzero" THEN Raises("AIError")
  ELSE IF w.proc = "empty" THEN Raises("AIError")
  ELSE ReturnsText(w.proc)

\* ClaudeSessionAdapter._run_claude, lines 72-101, which both send
\* operations of the session gateway end in
SessionRunClaude(w) ==
  IF ~w.found THEN Raises("AIError")
  ELSE IF w.proc = "timeout" THEN Raises("AIError")
  ELSE IF w.proc = "nonzero" THEN Raises("AIError")
  ELSE IF w.proc = "empty" THEN Raises("AIError")
  ELSE ReturnsText(w.proc)

\* ClaudeInteractiveAdapter._read_until_marker: on timeout the loop breaks
\* and what was read so far is returned; a process that has exited raises
ReadUntilMarker(w) ==
  IF w.proc = "timeout" THEN ReturnsText("partial")
  ELSE IF w.proc = "nonzero" THEN Raises("AIError")
  ELSE ReturnsText(w.proc)

\* ClaudeInteractiveAdapter.send_message
InteractiveSendMessage(w) ==
  IF ~w.active THEN Raises("AIError") ELSE ReadUntilMarker(w)

\* ClaudeInteractiveAdapter.send_message_with_pdf: start_session when no
\* session is active (the attachment must exist, Popen must find the
\* executable), then send_message
InteractiveSendMessageWithPdf(w) ==
  IF w.active THEN InteractiveSendMessage(w)
  ELSE IF ~w.exists THEN Raises("AIError")
  ELSE IF ~w.found THEN Raises("AIError")
  ELSE InteractiveSendMessage([w EXCEPT !.active = TRUE])

\* The calls examined: a gateway variant, an operation and a world
GatewayProbes ==
  {[fn |-> <<v, op>>, input |-> w, out |-> None] :
     v \in GatewayVariants, op \in GatewayOperations, w \in GatewayWorlds}

\* The pipeline at rest: nothing stored, no invocation running
AtRest ==
  /\ latest = NoRun
  /\ fs = [r \in Runs |-> EmptyRun]
  /\ nruns = 0
  /\ nids = [s \in Stages |-> 0]
  /\ pc = "idle"
  /\ inv = IdleInv
  /\ ret = NoRet
  /\ obs = NewObs("none", FALSE, <<>>, FALSE)
  /\ env = EnvRuns
  /\ gw = GwInit

InitGateway == AtRest /\ probe \in GatewayProbes

\* The call is made on the one-shot gateway
CliCall ==
  /\ probe.out = None /\ probe.fn[1] = "cli"
  /\ probe' = [probe EXCEPT !.out = Some(IF probe.fn[2] = "send_message"
                                          THEN CliSendMessage(probe.input)
                                          ELSE CliSendMessageWithPdf(probe.input))]
  /\ UNCHANGED <<latest, fs, nruns, nids, pc, inv, ret, obs, env, gw>>

\* The call is made on the session gateway
SessionCall ==
  /\ probe.out = None /\ probe.fn[1] = "session"
  /\ probe' = [probe EXCEPT !.out = Some(SessionRunClaude(probe.input))]
  /\ UNCHANGED <<latest, fs, nruns, nids, pc, inv, ret, obs, env, gw>>

\* The call is made on the interactive gateway
InteractiveCall ==
  /\ probe.out = None /\ probe.fn[1] = "interactive"
  /\ probe' = [probe EXCEPT !.out = Some(IF probe.fn[2] = "send_message"
                                          THEN InteractiveSendMessage(probe.input)
                                          ELSE InteractiveSendMessageWithPdf(probe.input))]
  /\ UNCHANGED <<latest, fs, nruns, nids, pc, inv, ret, obs, env, gw>>

NextGateway == CliCall \/ SessionCall \/ InteractiveCall

SpecGateway == InitGateway /\ [][NextGateway]_vars

(* ============================ the extractors =========================== *)
\* A response of the model, as a sequence of tokens: a code fence with or
\* without the json tag, braces, brackets, the member of an object that
\* carries the field an extractor looks for (with its list), a number, and
\* a word of prose.  The empty sequence is the blank response.
MaxLen == 4
Tokens == {"fence json", "fence", "{", "}", "[", "]", "field", "num", "word"}
Responses == UNION {[1..n -> Tokens] : n \in 0..MaxLen}

\* str.find from a position on (0 when absent) and str.rfind, over tokens
FirstAt(s, T, from) ==
  LET I == {i \in from..Len(s) : s[i] \in T}
  IN IF I = {} THEN 0 ELSE CHOOSE i \in I : \A j \in I : i <= j
LastAt(s, T) ==
  LET I == {i \in 1..Len(s) : s[i] \in T}
  IN IF I = {} THEN 0 ELSE CHOOSE i \in I : \A j \in I : j <= i

\* The texts json.loads accepts
JsonObjects == {<<"{", "}">>, <<"{", "field", "}">>}
JsonLists ==
  {<<"[", "]">>, <<"[", "num", "]">>, <<"[", "[", "]", "]">>}
    \cup {<<"[">> \o o \o <<"]">> : o \in JsonObjects}
JsonScalars == {<<"num">>}

\* json.loads: the kind of value parsed, "invalid" for JSONDecodeError
JsonLoads(s) ==
  IF s \in JsonObjects THEN (IF s[2] = "field" THEN "object with field" ELSE "object")
  ELSE IF Len(s) <= MaxLen /\ s \in JsonLists THEN "list"
  ELSE IF s \in JsonScalars THEN "scalar"
  ELSE "invalid"

\* parsed.get(field, []) on the value parsed
GetField(kind) ==
  IF kind = "object with field" THEN ReturnsText("field")
  ELSE IF kind = "object" THEN ReturnsText("default")
  ELSE Raises("AttributeError")

\* "Extraire JSON des blocs markdown": the text between the first fence
\* (the first one tagged json if there is one) and the fence that follows it
StripFences(s) ==
  LET tagged == FirstAt(s, {"fence json"}, 1)
      start == IF tagged /= 0 THEN tagged ELSE FirstAt(s, {"fence"}, 1)
      end == FirstAt(s, {"fence json", "fence"}, start + 1)
  IN IF start /= 0 /\ end /= 0 THEN SubSeq(s, start + 1, end - 1) ELSE s

\* "Chercher le JSON": from the first "{" to the last "}"
BraceSpan(s) ==
  LET start == FirstAt(s, {"{"}, 1)
      end == LastAt(s, {"}"})
  IN IF start /= 0 /\ end >= start THEN SubSeq(s, start, end) ELSE s

\* RestructurerService._parse_module_items
ParseModuleItems(response) ==
  IF response = <<>> THEN Raises("AIError")
  ELSE LET parsed == JsonLoads(BraceSpan(StripFences(response)))
       IN IF parsed = "invalid" THEN Raises("AIError") ELSE GetField(parsed)

\* GeneratorService._parse_cards
ParseCards(response) ==
  IF response = <<>> THEN Raises("AIError")
  ELSE LET parsed == JsonLoads(BraceSpan(StripFences(response)))
       IN IF parsed = "invalid" THEN Raises("AIError") ELSE GetField(parsed)

\* AnalystService._parse_detected_modules: json.loads on the text, then on
\* its brace span
ParseDetectedModules(response) ==
  IF response = <<>> THEN Raises("AIError")
  ELSE LET text == StripFences(response)
           direct == JsonLoads(text)
           start == FirstAt(text, {"{"}, 1)
           end == LastAt(text, {"}"})
           inner == JsonLoads(SubSeq(text, start, end))
       IN IF direct /= "invalid" THEN GetField(direct)
          ELSE IF start /= 0 /\ end >= start /\ inner /= "invalid"
          THEN GetField(inner)
          ELSE Raises("AIError")

Extractors == {"_parse_detected_modules", "_parse_module_items", "_parse_cards"}

InitExtract ==
  AtRest /\ probe \in {[fn |-> <<"extract", x>>, input |-> r, out |-> None] :
                         x \in Extractors, r \in Responses}

\* An extractor is applied to a response
ExtractorCall ==
  /\ probe.out = None
  /\ probe' = [probe EXCEPT !.out = Some(
        CASE probe.fn[2] = "_parse_detected_modules" -> ParseDetectedModules(probe.input)
          [] probe.fn[2] = "_parse_module_items" -> ParseModuleItems(probe.input)
          [] probe.fn[2] = "_parse_cards" -> ParseCards(probe.input))]
  /\ UNCHANGED <<latest, fs, nruns, nids, pc, inv, ret, obs, env, gw>>

SpecExtract == InitExtract /\ [][ExtractorCall]_vars

(* ---------------------------------------------------------------------- *)
(* The card shape check of generate and optimize                           *)
(* (generator_service._parse_cards / _validate_card_structure and          *)
(* atomizer_service._parse_optimized_cards / _validate_card_structure:     *)
(* the two services carry the same text)                                   *)
(* ---------------------------------------------------------------------- *)
MaxCards == 2

\* What the "cards" list of a decoded response may hold: JSON objects whose
\* fields front, back and text are each absent, present with an empty string,
\* or present with a text; and JSON numbers.
FieldStates == {"absent", "empty", "text"}

CardObjects ==
  [kind : {"object"}, front : FieldStates, back : FieldStates, text : FieldStates]

CardNumber == [kind |-> "number", front |-> "absent", back |-> "absent", text |-> "absent"]

CardElements == CardObjects \cup {CardNumber}

CardLists == UNION {[1..n -> CardElements] : n \in 0..MaxCards}

\* _validate_card_structure(card, card_type), card a dict:
\* "front" in card and "back" in card / "text" in card / False
ValidateCardStructure(card, card_type) ==
  IF card_type = "basic" THEN card.front /= "absent" /\ card.back /= "absent"
  ELSE IF card_type = "cloze" THEN card.text /= "absent"
  ELSE FALSE

RECURSIVE ValidatedFrom(_, _)
ValidatedFrom(cards, card_type) ==
  IF cards = <<>> THEN <<>>
  ELSE IF ValidateCardStructure(Head(cards), card_type)
       THEN <<Head(cards)>> \o ValidatedFrom(Tail(cards), card_type)
       ELSE ValidatedFrom(Tail(cards), card_type)

\* The validation loop over parsed.get("cards", []): the "in" test on a
\* number raises TypeError, which the try (except json.JSONDecodeError) does
\* not catch.
ValidatedCards(cards, card_type) ==
  IF card_type \in {"basic", "cloze"} /\ \E i \in 1..Len(cards) : cards[i].kind = "number"
  THEN Raises("TypeError")
  ELSE [kind |-> "returns", what |-> ValidatedFrom(cards, card_type)]

CardProbes ==
  {[fn |-> <<"cards", s>>, input |-> [cards |-> c, card_type |-> t], out |-> None] :
     s \in {"generate", "optimize"}, c \in CardLists, t \in VALID_CARD_TYPES}

InitCards == AtRest /\ probe \in CardProbes

\* generate's extractor validates the cards of a decoded response
GenerateValidateCall ==
  /\ probe.out = None
  /\ probe.fn = <<"cards", "generate">>
  /\ probe' = [probe EXCEPT !.out = Some(ValidatedCards(probe.input.cards, probe.input.card_type))]
  /\ UNCHANGED <<latest, fs, nruns, nids, pc, inv, ret, obs, env, gw>>

\* optimize's extractor does the same
OptimizeValidateCall ==
  /\ probe.out = None
  /\ probe.fn = <<"cards", "optimize">>
  /\ probe' = [probe EXCEPT !.out = Some(ValidatedCards(probe.input.cards, probe.input.card_type))]
  /\ UNCHANGED <<latest, fs, nruns, nids, pc, inv, ret, obs, env, gw>>

NextCards == GenerateValidateCall \/ OptimizeValidateCall

SpecCards == InitCards /\ [][NextCards]_vars

(* ---------------------------------------------------------------------- *)
(* The post-processing of format's response                                *)
(* (formatter_service._extract_formatted_content, _count_cards_in_file)    *)
(* ---------------------------------------------------------------------- *)
\* A text is the sequence of its lines (<<>> is the empty text); a response
\* is made of these lines, and a code fence stands on a line of its own.
MaxLines == 4

TextLines ==
  {"#separator:;", "#html:true", "#notetype:Cloze", "card", "",
   "fence", "fence txt", "fence json"}

Texts == UNION {[1..n -> TextLines] : n \in 0..MaxLines}

IsFence(line) == line \in {"fence", "fence txt", "fence json"}

\* The lines on which the pattern's opening (three backquotes, an optional
\* txt, text or anki, white space, a line break) matches
OpensBlock(line) == line \in {"fence", "fence txt"}

RECURSIVE StripLeft(_)
StripLeft(lines) ==
  IF lines /= <<>> /\ Head(lines) = "" THEN StripLeft(Tail(lines)) ELSE lines

RECURSIVE StripRight(_)
StripRight(lines) ==
  IF lines /= <<>> /\ lines[Len(lines)] = ""
  THEN StripRight(SubSeq(lines, 1, Len(lines) - 1)) ELSE lines

\* str.strip() on a text
Strip(lines) == StripRight(StripLeft(lines))

Min(S) == CHOOSE x \in S : \A y \in S : x <= y
Max(S) == CHOOSE x \in S : \A y \in S : x >= y

\* Lines 256-268: the content of the code block, when the response has one.
ExtractBlock(lines) ==
  LET fences == {i \in 1..Len(lines) : IsFence(lines[i])}
      \* re.search: the leftmost opening that a later fence closes
      opens == {i \in fences : OpensBlock(lines[i]) /\ \E j \in fences : j > i}
  IN  IF fences = {} THEN lines
      ELSE IF opens /= {}
      THEN LET i == Min(opens)
               j == Min({k \in fences : k > i})
           IN  Strip(SubSeq(lines, i + 1, j - 1))
      ELSE LET f == Min(fences)
               l == Max(fences)
           IN  \* start: after the first fence's line (0 when it is the last
               \* line); end: where the last fence begins
               IF f = Len(lines)
               THEN IF f > 1 THEN Strip(SubSeq(lines, 1, f - 1)) ELSE lines
               ELSE IF l > f + 1 THEN Strip(SubSeq(lines, f + 1, l - 1))
               ELSE lines

\* line.strip().startswith(prefix) for some line of lines[:3]
HasHeader(lines, prefix) ==
  \E i \in 1..Len(lines) :
     /\ i <= 3
     /\ \/ prefix = "#separator" /\ lines[i] = "#separator:;"
        \/ prefix = "#html" /\ lines[i] = "#html:true"
        \/ prefix = "#notetype" /\ lines[i] = "#notetype:Cloze"

\* _extract_formatted_content without the header check: the content is
\* returned as it is.
ExtractFormattedContentAsIs(response, card_type) ==
  IF Strip(response) = <<>> THEN Raises("AIError")
  ELSE [kind |-> "returns", what |-> ExtractBlock(Strip(response))]

\* _extract_formatted_content(response, card_type, expected_count)
ExtractFormattedContent(response, card_type) ==
  LET stripped == Strip(response)
      content == ExtractBlock(stripped)
      headers == IF card_type = "cloze"
                 THEN <<"#separator:;", "#html:true", "#notetype:Cloze">>
                 ELSE <<"#separator:;", "#html:true">>
  IN  IF stripped = <<>> THEN Raises("AIError")
      ELSE IF ~HasHeader(content, "#separator") \/ ~HasHeader(content, "#html")
      THEN [kind |-> "returns", what |-> headers \o content]
      ELSE [kind |-> "returns", what |-> content]

\* _count_cards_in_file(content, card_type): the lines that are not blank
\* and do not start with #
CountCardsInFile(content) ==
  Cardinality({i \in 1..Len(content) :
     content[i] \notin {"", "#separator:;", "#html:true", "#notetype:Cloze"}})

FormatProbes ==
  {[fn |-> <<"format", "_extract_formatted_content">>,
    input |-> [response |-> r, card_type |-> t], out |-> None] :
     r \in Texts, t \in VALID_CARD_TYPES}

InitFormat == AtRest /\ probe \in FormatProbes

\* format_cards post-processes the gateway's response
ExtractFormattedCall ==
  /\ probe.out = None
  /\ probe.fn[1] = "format"
  /\ probe' = [probe EXCEPT !.out =
        Some(ExtractFormattedContent(probe.input.response, probe.input.card_type))]
  /\ UNCHANGED <<latest, fs, nruns, nids, pc, inv, ret, obs, env, gw>>

SpecFormat == InitFormat /\ [][ExtractFormattedCall]_vars

(* ---------------------------------------------------------------------- *)
(* The tallies and the ratio of optimize_cards                             *)
(* (atomizer_service.optimize_cards, lines 156-265)                        *)
(* ---------------------------------------------------------------------- *)
MaxIn == 50
MaxOut == 62

\* 2^e mod n
RECURSIVE Pow2Mod(_, _)
Pow2Mod(e, n) == IF e = 0 THEN 1 % n ELSE (2 * Pow2Mod(e - 1, n)) % n

\* The s with 1 <= (a / b) * 2^s < 2, for a, b > 0
RECURSIVE BinaryShift(_, _)
BinaryShift(a, b) ==
  IF a < b THEN BinaryShift(2 * a, b) + 1
  ELSE IF a >= 2 * b THEN BinaryShift(a, 2 * b) - 1
  ELSE 0

\* total_output / total_input is the double nearest to the quotient (53
\* significant bits, ties to even): -1, 0 or 1 as that double is below,
\* equal to or above the quotient a / b.
FloatDivError(a, b) ==
  LET e == 52 + BinaryShift(a, b)
      r == (a * Pow2Mod(e, b)) % b
      odd == (a * Pow2Mod(e, 2 * b)) % (2 * b) >= b
  IN  IF r = 0 THEN 0
      ELSE IF 2 * r < b THEN -1
      ELSE IF 2 * r > b THEN 1
      ELSE IF odd THEN 1 ELSE -1

\* The ratio cut after two decimals instead of rounded.
OptimizationRatioTruncated(total_output, total_input) ==
  IF total_input > 0 THEN (100 * total_output) \div total_input ELSE 0

\* round(total_output / total_input, 2) if total_input > 0 else 0, in
\* hundredths: round() gives the two-decimal number nearest to the double,
\* the even one when the double is half way.
OptimizationRatio(total_output, total_input) ==
  IF total_input > 0
  THEN LET k == (100 * total_output) \div total_input
           rem == (100 * total_output) % total_input
           err == IF total_output = 0 THEN 0
                  ELSE FloatDivError(total_output, total_input)
       IN  IF 2 * rem < total_input THEN k
           ELSE IF 2 * rem > total_input THEN k + 1
           ELSE IF err < 0 THEN k
           ELSE IF err > 0 THEN k + 1
           ELSE IF k % 2 = 0 THEN k ELSE k + 1
  ELSE 0

\* What the loop meets for one module: no card ("empty"), an exception other
\* than AIError ("failed"), AIError ("aborted"), or input cards optimized
\* into output cards ("done").
ModuleOutcome(kind, input, output) == [kind |-> kind, input |-> input, output |-> output]

SmallOutcomes ==
  {ModuleOutcome("empty", 0, 0), ModuleOutcome("failed", 0, 0),
   ModuleOutcome("aborted", 0, 0)}
  \cup {ModuleOutcome("done", i, o) : i \in {1, 8, 25, 40}, o \in {0, 1, 3, 31}}

OutcomeLists ==
  {<<>>}
  \cup {<<ModuleOutcome("done", i, o)>> : i \in 1..MaxIn, o \in 0..MaxOut}
  \cup {<<x>> : x \in SmallOutcomes}
  \cup {<<x, y>> : x, y \in SmallOutcomes}

RECURSIVE Tally(_, _)
\* The loop over modules_processed: modules_stats, total_input and
\* total_output grow with each module that is completed with cards.
Tally(outcomes, acc) ==
  IF outcomes = <<>> THEN acc
  ELSE LET o == Head(outcomes)
       IN  IF o.kind = "done"
           THEN Tally(Tail(outcomes),
                      [modules_stats |-> Append(acc.modules_stats,
                                                [input |-> o.input, output |-> o.output]),
                       total_input |-> acc.total_input + o.input,
                       total_output |-> acc.total_output + o.output])
           ELSE Tally(Tail(outcomes), acc)

\* The metadata optimize_cards saves (the counts and the ratio), unless an
\* AIError left the loop.
OptimizationMetadata(outcomes) ==
  LET t == Tally(outcomes, [modules_stats |-> <<>>, total_input |-> 0, total_output |-> 0])
  IN  IF \E i \in 1..Len(outcomes) : outcomes[i].kind = "aborted"
      THEN Raises("AIError")
      ELSE [kind |-> "returns",
            what |-> [modules_stats |-> t.modules_stats,
                      cards_input |-> t.total_input,
                      cards_output |-> t.total_output,
                      optimization_ratio |->
                         OptimizationRatio(t.total_output, t.total_input)]]

InitRatio ==
  AtRest /\ probe \in {[fn |-> <<"optimize", "metadata">>, input |-> l, out |-> None] :
                         l \in OutcomeLists}

\* optimize_cards runs its loop and saves its metadata
OptimizeTallyCall ==
  /\ probe.out = None
  /\ probe.fn[1] = "optimize"
  /\ probe' = [probe EXCEPT !.out = Some(OptimizationMetadata(probe.input))]
  /\ UNCHANGED <<latest, fs, nruns, nids, pc, inv, ret, obs, env, gw>>

SpecRatio == InitRatio /\ [][OptimizeTallyCall]_vars

(* ---------------------------------------------------------------------- *)
(* One tracking ledger and its writers                                      *)
(* (update_module_status, _create_empty_tracking, update_session_id and    *)
(* _update_global_status of the three storages, which carry the same text; *)
(* _init_tracking of restructure and generate)                             *)
(* ---------------------------------------------------------------------- *)
\* Times are the readings of datetime.now(): 1, 2, ... in the order of the
\* writes. The counts and the error text of a module are left out.
MaxClock == 5

LedgerStores == {"restructured", "cards", "optimized"}
LedgerModules == {"themes", "vocabulary"}
ModuleStatuses == {"in_progress", "completed", "failed"}

NoWrite == [op |-> "none", module |-> "", status |-> "", now |-> 0]

\* The entry of a module that _init_tracking and update_module_status create
NewModuleData == [status |-> "pending", started_at |-> None, completed_at |-> None]

\* _update_global_status: the status stored for the module entries
UpdateGlobalStatus(modules) ==
  LET statuses == {modules[m].status : m \in DOMAIN modules}
  IN  IF DOMAIN modules = {} THEN "pending"
      ELSE IF statuses = {"completed"} THEN "completed"
      ELSE IF "failed" \in statuses THEN "failed"
      ELSE IF "in_progress" \in statuses THEN "in_progress"
      ELSE IF "completed" \in statuses THEN "in_progress"
      ELSE "pending"

\* _create_empty_tracking
StorageCreateEmptyTracking(now) ==
  [status |-> "pending", session_id |-> None, updated_at |-> now,
   modules |-> [m \in {} |-> NewModuleData]]

\* RestructurerService._init_tracking, GeneratorService._init_tracking
ServiceInitTracking(modules, now) ==
  [status |-> "in_progress", session_id |-> None, updated_at |-> now,
   modules |-> [m \in modules |-> NewModuleData]]

\* update_module_status stamping started_at at every transition to
\* in_progress.
StorageUpdateModuleStatusRestamped(stored, module, status, now) ==
  LET tracking == IF IsSome(stored) THEN Val(stored) ELSE StorageCreateEmptyTracking(now)
      before == IF module \in DOMAIN tracking.modules
                THEN tracking.modules[module] ELSE NewModuleData
      module_data ==
        [status |-> status,
         started_at |-> IF status = "in_progress" THEN Some(now) ELSE before.started_at,
         completed_at |-> IF status \in {"completed", "failed"}
                          THEN Some(now) ELSE before.completed_at]
      modules == [m \in DOMAIN tracking.modules \cup {module} |->
                    IF m = module THEN module_data ELSE tracking.modules[m]]
  IN  [tracking EXCEPT !.updated_at = now, !.modules = modules,
                       !.status = UpdateGlobalStatus(modules)]

\* update_module_status on the ledger read (or on an empty one when there
\* is none), up to save_tracking
StorageUpdateModuleStatus(stored, module, status, now) ==
  LET tracking == IF IsSome(stored) THEN Val(stored) ELSE StorageCreateEmptyTracking(now)
      before == IF module \in DOMAIN tracking.modules
                THEN tracking.modules[module] ELSE NewModuleData
      module_data ==
        [status |-> status,
         started_at |-> IF status = "in_progress" /\ before.started_at = None
                        THEN Some(now) ELSE before.started_at,
         completed_at |-> IF status \in {"completed", "failed"}
                          THEN Some(now) ELSE before.completed_at]
      modules == [m \in DOMAIN tracking.modules \cup {module} |->
                    IF m = module THEN module_data ELSE tracking.modules[m]]
  IN  [tracking EXCEPT !.updated_at = now, !.modules = modules,
                       !.status = UpdateGlobalStatus(modules)]

\* update_session_id
StorageUpdateSessionId(stored, session_id, now) ==
  LET tracking == IF IsSome(stored) THEN Val(stored) ELSE StorageCreateEmptyTracking(now)
  IN  [tracking EXCEPT !.session_id = Some(session_id), !.updated_at = now]

InitLedger ==
  AtRest /\ probe \in {[fn |-> <<"ledger", s>>, input |-> NoWrite, out |-> None] :
                         s \in LedgerStores}

\* The ledger file is written at the next reading of the clock
LedgerWrite(op, module, status, tracking) ==
  /\ probe.fn[1] = "ledger"
  /\ probe.input.now < MaxClock
  /\ probe' = [probe EXCEPT
        !.input = [op |-> op, module |-> module, status |-> status,
                   now |-> probe.input.now + 1],
        !.out = tracking]
  /\ UNCHANGED <<latest, fs, nruns, nids, pc, inv, ret, obs, env, gw>>

\* restructure_document and generate_cards initialise the ledger (there is
\* none, or force=true)
LedgerInitTracking(modules) ==
  /\ probe.fn[2] \in {"restructured", "cards"}
  /\ LedgerWrite("init", "", "", Some(ServiceInitTracking(modules, probe.input.now + 1)))

LedgerUpdateModuleStatus(module, status) ==
  LedgerWrite("update", module, status,
              Some(StorageUpdateModuleStatus(probe.out, module, status, probe.input.now + 1)))

LedgerUpdateSessionId ==
  /\ probe.fn[2] \in {"restructured", "cards"}
  /\ LedgerWrite("session", "", "",
                 Some(StorageUpdateSessionId(probe.out, 1, probe.input.now + 1)))

\* The storages' delete unlinks the ledger file (force=true)
LedgerDelete ==
  /\ IsSome(probe.out)
  /\ LedgerWrite("delete", "", "", None)

NextLedger ==
  \/ \E modules \in {{"themes"}, LedgerModules} : LedgerInitTracking(modules)
  \/ \E module \in LedgerModules, status \in ModuleStatuses :
        LedgerUpdateModuleStatus(module, status)
  \/ LedgerUpdateSessionId
  \/ LedgerDelete

SpecLedger == InitLedger /\ [][NextLedger]_vars

(* ================== one session gateway, two documents ================= *)
\* di_container.get_ai is cached: every service of the process holds the same
\* ClaudeSessionAdapter.  The documents are named by the paths of their PDFs.
OtherDocPath == "docs/Other.pdf"
Documents == {DocPath, OtherDocPath}

\* The attachment a session was established with (ghost), "none" for a
\* session established by a call without attachment
NoAttachment == "none"

\* probe in this specification: born maps each session id handed out to the
\* attachment of the call that established it, saved is the session_id field
\* of each document's generation ledger, doc and kind describe the latest
\* call (the document on whose behalf it was made, and the operation).
InitSessions ==
  /\ AtRest
  /\ probe = [born |-> [s \in 1..MaxSessions |-> NoAttachment],
              saved |-> [d \in Documents |-> None],
              doc |-> None, kind |-> "none"]

SessionsFrame == UNCHANGED <<latest, fs, nruns, nids, pc, inv, ret, obs, env>>

BornAfter(g, attachment) ==
  IF g.nsid /= gw.nsid
  THEN [probe.born EXCEPT ![g.nsid] = attachment]
  ELSE probe.born

\* analyze_document or restructure_document of document d calls
\* send_message_with_pdf(pdf_path=d, ...)
DocumentCallWithPdf(d) ==
  \E est \in BOOLEAN :
     /\ est => gw.nsid < MaxSessions
     /\ gw' = SendMessageWithPdf(gw, d, est)
     /\ probe' = [probe EXCEPT !.born = BornAfter(gw', IF IsSome(gw'.last.attached)
                                                      THEN d ELSE NoAttachment),
                               !.doc = Some(d), !.kind = "send_message_with_pdf"]
     /\ SessionsFrame

\* generate_cards, optimize_cards or format_cards of document d calls
\* send_message(user_message, system_prompt): no attachment
DocumentSendMessage(d) ==
  \E est \in BOOLEAN :
     /\ est => gw.nsid < MaxSessions
     /\ gw' = SendMessage(gw, est)
     /\ probe' = [probe EXCEPT !.born = BornAfter(gw', NoAttachment),
                               !.doc = Some(d), !.kind = "send_message"]
     /\ SessionsFrame

\* generate_cards of document d, after a module is completed: the session id
\* of the gateway is written to the ledger of d (update_session_id)
DocumentSaveSession(d) ==
  /\ probe.kind = "send_message"
  /\ probe.doc = Some(d)
  /\ IsSome(gw.session_id)
  /\ gw.session_id /= probe.saved[d]
  /\ probe' = [probe EXCEPT !.saved[d] = gw.session_id]
  /\ UNCHANGED gw
  /\ SessionsFrame

\* generate_cards of document d, at its start: the session id of the ledger
\* of d is injected, set_session_id(saved_session_id, None)
DocumentRestoreSession(d) ==
  /\ IsSome(probe.saved[d])
  /\ gw' = SetSessionId(gw, Val(probe.saved[d]), None)
  /\ UNCHANGED probe
  /\ SessionsFrame

\* The process ends and a new one starts: a new adapter, the ledgers stay
ProcessRestart ==
  /\ gw /= [GwInit EXCEPT !.nsid = gw.nsid]
  /\ gw' = [GwInit EXCEPT !.nsid = gw.nsid]
  /\ probe' = [probe EXCEPT !.doc = None, !.kind = "none"]
  /\ SessionsFrame

NextSessions ==
  \/ \E d \in Documents : DocumentCallWithPdf(d)
  \/ \E d \in Documents : DocumentSendMessage(d)
  \/ \E d \in Documents : DocumentSaveSession(d)
  \/ \E d \in Documents : DocumentRestoreSession(d)
  \/ ProcessRestart

SpecSessions == InitSessions /\ [][NextSessions]_vars

(* ============== two invocations writing the same ledger ================ *)
\* Two invocations (processes) of a stage on the same document and card
\* type.  Each calls update_module_status a bounded number of times; a call
\* is get_tracking (the ledger file is read into a local dict) followed by
\* save_tracking (the modified dict replaces the file): two steps, between
\* which the other invocation may run.  No lock is taken.
Invocations == {"A", "B"}
MaxCalls == 2

NoUpdate == [module |-> "", status |-> ""]

\* probe in this specification: file is the ledger file, local the dict each
\* invocation holds between its read and its write, call the update it is
\* making, ncalls the calls it has made, wrote (ghost) the last status each
\* invocation wrote for each module, clock the number of writes so far.
InitConcurrent ==
  /\ AtRest
  /\ probe = [file |-> Some(ServiceInitTracking(LedgerModules, 0)),
              local |-> [p \in Invocations |-> None],
              call |-> [p \in Invocations |-> NoUpdate],
              ncalls |-> [p \in Invocations |-> 0],
              wrote |-> [p \in Invocations |-> [m \in LedgerModules |-> ""]],
              clock |-> 0]

ConcurrentFrame == UNCHANGED <<latest, fs, nruns, nids, pc, inv, ret, obs, env, gw>>

\* update_module_status, first half: tracking = self.get_tracking(...)
UpdateReadsLedger(p, module, status) ==
  /\ probe.call[p] = NoUpdate
  /\ probe.ncalls[p] < MaxCalls
  /\ probe' = [probe EXCEPT !.local[p] = probe.file,
                            !.call[p] = [module |-> module, status |-> status],
                            !.ncalls[p] = @ + 1]
  /\ ConcurrentFrame

\* update_module_status, second half: the entry of the module is set in the
\* dict that was read and save_tracking writes the whole dict
UpdateWritesLedger(p) ==
  /\ probe.call[p] /= NoUpdate
  /\ LET c == probe.call[p]
         now == probe.clock + 1
     IN probe' = [probe EXCEPT
                    !.file = Some(StorageUpdateModuleStatus(probe.local[p], c.module,
                                                            c.status, now)),
                    !.local[p] = None,
                    !.call[p] = NoUpdate,
                    !.wrote[p][c.module] = c.status,
                    !.clock = now]
  /\ ConcurrentFrame

NextConcurrent ==
  \/ \E p \in Invocations, module \in LedgerModules, status \in ModuleStatuses :
        UpdateReadsLedger(p, module, status)
  \/ \E p \in Invocations : UpdateWritesLedger(p)

SpecConcurrent == InitConcurrent /\ [][NextConcurrent]_vars

(* ======================== the interactive gateway ====================== *)
\* ClaudeInteractiveAdapter: one external process, a reader thread that puts
\* every line the process prints into _output_queue, and send_message, which
\* writes the prompt and reads the queue up to a line holding END_MARKER or
\* until the timeout.  A line is described by the prompt it answers and by
\* whether it holds the marker.
MaxPrompts == 3
MaxAnswer == 2

OutputLine(n, marker) == [of |-> n, marker |-> marker]

\* The answer of the process to prompt n: len lines, the last with the marker
Answer(n, len) == [i \in 1..len |-> OutputLine(n, i = len)]

\* probe in this specification: nprompts counts the prompts written, stdout
\* holds the lines the process has still to print, queue is _output_queue,
\* call is the prompt send_message is waiting on (0: no call), output_lines
\* the lines it has read, returned the value each call returned.
InitInteractive ==
  /\ AtRest
  /\ probe = [nprompts |-> 0, stdout |-> <<>>, queue |-> <<>>, call |-> 0,
              output_lines |-> <<>>,
              returned |-> [n \in 1..MaxPrompts |-> None]]

InteractiveFrame == UNCHANGED <<latest, fs, nruns, nids, pc, inv, ret, obs, env, gw>>

\* send_message: stdin.write(prompt) and flush, then _read_until_marker
\* starts with an empty output_lines; the queue is left as it is
SendMessageWritesPrompt ==
  /\ probe.call = 0
  /\ probe.nprompts < MaxPrompts
  /\ \E len \in 1..MaxAnswer :
        probe' = [probe EXCEPT !.nprompts = @ + 1,
                               !.call = probe.nprompts + 1,
                               !.output_lines = <<>>,
                               !.stdout = @ \o Answer(probe.nprompts + 1, len)]
  /\ InteractiveFrame

\* reader thread: line = stdout.readline(); _output_queue.put(line)
ReaderPutsLine ==
  /\ probe.stdout /= <<>>
  /\ probe' = [probe EXCEPT !.stdout = Tail(@),
                            !.queue = Append(@, Head(probe.stdout))]
  /\ InteractiveFrame

\* _read_until_marker: line = _output_queue.get(timeout=1), appended to
\* output_lines; a line with the marker ends the loop and the call returns
ReadUntilMarkerGets ==
  /\ probe.call /= 0
  /\ probe.queue /= <<>>
  /\ LET line == Head(probe.queue)
         lines == Append(probe.output_lines, line)
     IN probe' = IF line.marker
                 THEN [probe EXCEPT !.queue = Tail(@), !.call = 0,
                                    !.output_lines = <<>>,
                                    !.returned[probe.call] = Some(lines)]
                 ELSE [probe EXCEPT !.queue = Tail(@), !.output_lines = lines]
  /\ InteractiveFrame

\* _read_until_marker: elapsed > timeout ends the loop, and the lines read so
\* far are returned
ReadUntilMarkerTimesOut ==
  /\ probe.call /= 0
  /\ probe' = [probe EXCEPT !.call = 0, !.output_lines = <<>>,
                            !.returned[probe.call] = Some(probe.output_lines)]
  /\ InteractiveFrame

NextInteractive ==
  \/ SendMessageWritesPrompt
  \/ ReaderPutsLine
  \/ ReadUntilMarkerGets
  \/ ReadUntilMarkerTimesOut

SpecInteractive == InitInteractive /\ [][NextInteractive]_vars

(* ---- C17 ---- *)
\* The step is a call of send_message_with_pdf on the session gateway (the
\* services pass the document's path).
CallsWithPdf ==
  /\ env.gateway = "session"
  /\ pc \in {"a_call", "r_call"}
  /\ obs'.sent /= obs.sent

C17_Step ==
  CallsWithPdf =>
     \* the attachment's own session is resumed and the attachment not sent
     /\ (IsSome(gw.owner) /\ Val(gw.owner).pdf = DocPath) =>
           /\ gw'.last.resume = Some(Val(gw.owner).sid)
           /\ gw'.last.attached = None
     \* another attachment: no session is resumed, the attachment is sent
     /\ (IsSome(gw.cur) /\ Val(gw.cur) /= DocPath) =>
           /\ gw'.last.resume = None
           /\ gw'.last.attached = Some(DocPath)

\* C17: on the session gateway, once a call with attachment p has
\* established a session, and until a call with another attachment or
\* close_session, every call with attachment p resumes that session and
\* does not send p; a call with an attachment other than the current one
\* resumes no session and sends its attachment.
C17_SessionAffinity == [][C17_Step]_vars

(* ---- C18 ---- *)
\* The session token of the ledger that the generate_cards observed resumed
\* from (None when it did not resume, or the ledger held none)
ResumedToken ==
  IF obs.op = "generate" /\ ~obs.force /\ IsSome(obs.entryTracking)
  THEN Val(obs.entryTracking).session_id
  ELSE None

\* generate_cards is running on the session gateway, resumed from a ledger
\* that holds a session token
ResumedWithToken ==
  /\ env.gateway = "session"
  /\ pc /= "idle"
  /\ IsSome(ResumedToken)

C18_State == ResumedWithToken => gw.session_id = ResumedToken

C18_Step ==
  (ResumedWithToken /\ obs'.sent /= obs.sent) =>
     /\ gw'.last.resume = ResumedToken
     /\ ~gw'.last.capture
     /\ gw'.session_id = ResumedToken

\* C18: while a generate_cards that resumed (force=false) from a ledger
\* holding a session token runs, the gateway's session id is that token,
\* from before the first gateway call on; every gateway call of the
\* invocation resumes that session and asks for no new one.
C18_SessionReinjectedOnResume == []C18_State /\ [][C18_Step]_vars

\* C18 witness: a generate_cards that resumed from a ledger holding a session
\* token, in a process whose gateway had no session, has called the gateway
\* and returned normally.
C18_Witness ==
  /\ Returned
  /\ IsSome(ResumedToken)
  /\ obs.afterKill
  /\ obs.sent /= <<>>
  /\ gw.last.resume = ResumedToken

(* ---- C19 ---- *)
\* The call examined meets one of the failures: the attachment file is
\* missing (a call with an attachment), the executable is not found, the
\* process exits with a non-zero code, times out, or answers with nothing.
CallFails ==
  \/ probe.fn[2] = "send_message_with_pdf" /\ ~probe.input.exists
  \/ ~probe.input.found
  \/ probe.input.proc \in {"nonzero", "timeout", "empty"}

\* C19: in each gateway variant and for both send operations, a call that
\* meets one of these failures raises a gateway error: it does not return
\* and raises nothing else.
C19_UniformGatewayError ==
  (IsSome(probe.out) /\ CallFails) => probe.out = Some(Raises("AIError"))

(* ---- C20 ---- *)
\* C20: an extractor applied to a response either returns the value of the
\* field of an object that carries it, or raises a gateway error: for a
\* response that holds no such object it returns nothing (no default value)
\* and raises no other exception.
C20_ExtractorFailuresAreGatewayErrors ==
  IsSome(probe.out) =>
     \/ probe.out = Some(ReturnsText("field"))
     \/ probe.out = Some(Raises("AIError"))

(* ---- C21 ---- *)
\* The shape check as the claim words it: basic needs front and back present
\* and non-empty, cloze needs text present and non-empty.
ShapeOk(card, card_type) ==
  /\ card.kind = "object"
  /\ card_type = "basic" => card.front = "text" /\ card.back = "text"
  /\ card_type = "cloze" => card.text = "text"

RECURSIVE PassingShape(_, _)
PassingShape(cards, card_type) ==
  IF cards = <<>> THEN <<>>
  ELSE IF ShapeOk(Head(cards), card_type)
       THEN <<Head(cards)>> \o PassingShape(Tail(cards), card_type)
       ELSE PassingShape(Tail(cards), card_type)

\* C21: the card extractor of generate and of optimize returns, in their
\* original order, exactly the records of "cards" that pass the shape check
\* of the card type (front and back present and non-empty for basic, text
\* present and non-empty for cloze); the others are dropped and the batch
\* does not fail.
C21_CardShapeFilter ==
  IsSome(probe.out) =>
     probe.out = Some([kind |-> "returns",
                       what |-> PassingShape(probe.input.cards, probe.input.card_type)])

(* ---- C22 ---- *)
\* C22: every persisted analysis has all its detected modules in the fixed
\* module enumeration, whatever the gateway listed; a listing with names
\* outside the enumeration is saved without them (in the listing's order).
C22_State ==
  \A r \in Runs :
     IsSome(fs[r].analysis) => SeqToSet(Val(fs[r].analysis).detected) \subseteq AllModules

C22_Step ==
  (pc = "a_save" /\ pc' = "a_latest") =>
     /\ IsSome(fs'[inv.aid].analysis)
     /\ Val(fs'[inv.aid].analysis).detected = FilterSeq(obs.listed, AllModules)

C22_AnalysisModulesInEnumeration == []C22_State /\ [][C22_Step]_vars

\* C22 witness: the gateway listed a name outside the enumeration together
\* with valid ones, and the analysis was saved and returned.
C22_Witness ==
  /\ pc = "idle"
  /\ obs.op = "analyze"
  /\ ret.kind = "ok"
  /\ ~(SeqToSet(obs.listed) \subseteq AllModules)
  /\ latest /= NoRun
  /\ IsSome(fs[latest].analysis)
  /\ Val(fs[latest].analysis).detected = <<"themes", "vocabulary">>

(* ---- C23 ---- *)
\* generate_cards has resolved its restructuration and chosen its modules
ChoseModules == obs.op = "generate" /\ obs.chose

\* The selection the claim describes: the listed modules that are among the
\* restructuration's processed modules when a list is given, the processed
\* modules without the image modules otherwise.
ClaimedSelection ==
  IF IsSome(obs.asked)
  THEN FilterSeq(Val(obs.asked), SeqToSet(obs.available))
  ELSE FilterSeq(obs.available, AllModules \ {"images_list", "images_descriptions"})

\* C23: generate_cards with no explicit module list never processes
\* images_list or images_descriptions (no ledger transition and no gateway
\* call for them); with an explicit list it selects exactly the listed
\* modules that are among the restructuration's processed modules, the image
\* modules included; when the selection is empty it raises a validation
\* error (and has done no work).
C23_ModuleSelection ==
  ChoseModules =>
     /\ ~IsSome(obs.asked) =>
           /\ SeqToSet(obs.started) \cap {"images_list", "images_descriptions"} = {}
           /\ SeqToSet(obs.sent) \cap {"images_list", "images_descriptions"} = {}
     /\ (IsSome(obs.asked) /\ ClaimedSelection /= <<>>) =>
           obs.requested = ClaimedSelection
     /\ ClaimedSelection = <<>> =>
           /\ pc = "idle"
           /\ ret = ErrRet("DomainValidationError")
           /\ obs.started = <<>>
           /\ obs.sent = <<>>

(* ---- C24 ---- *)
\* The text format_cards persists for the response examined (None when it
\* raises)
PersistedText ==
  IF IsSome(probe.out) /\ Val(probe.out).kind = "returns"
  THEN Some(Val(probe.out).what) ELSE None

\* The response's content: the response without surrounding white space and
\* without the code fences it is wrapped in
ResponseContent == ExtractBlock(Strip(probe.input.response))

LacksDirective ==
  ~HasHeader(ResponseContent, "#separator") \/ ~HasHeader(ResponseContent, "#html")

\* C24: for every non-empty response, the text format_cards persists
\* carries both #separator and #html in its leading (three) lines; when the
\* response lacked one of them the directives are inserted at the top and
\* the response's content follows unchanged (otherwise the content is
\* persisted as it is).
C24_HeaderInjection ==
  (IsSome(probe.out) /\ probe.fn[1] = "format" /\ Strip(probe.input.response) /= <<>>) =>
     /\ IsSome(PersistedText)
     /\ HasHeader(Val(PersistedText), "#separator")
     /\ HasHeader(Val(PersistedText), "#html")
     /\ LacksDirective =>
          LET text == Val(PersistedText)
              n == IF probe.input.card_type = "cloze" THEN 3 ELSE 2
          IN  /\ Len(text) = n + Len(ResponseContent)
              /\ text[1] = "#separator:;"
              /\ text[2] = "#html:true"
              /\ SubSeq(text, n + 1, Len(text)) = ResponseContent
     /\ ~LacksDirective => Val(PersistedText) = ResponseContent

\* C24 witness: a fenced response that carries #separator but no #html has
\* been post-processed: both directives were put before its content.
C24_Witness ==
  /\ probe.input = [response |-> <<"fence txt", "#separator:;", "card", "fence">>,
                    card_type |-> "basic"]
  /\ PersistedText = Some(<<"#separator:;", "#html:true", "#separator:;", "card">>)

(* ---- C25 ---- *)
\* C25: for the card type cloze the text format_cards persists always
\* contains a #notetype directive, also when the response carried #separator
\* and #html but no #notetype.
C25_NotetypeForCloze ==
  (probe.fn[1] = "format" /\ probe.input.card_type = "cloze" /\ IsSome(PersistedText)) =>
     \E i \in 1..Len(Val(PersistedText)) : Val(PersistedText)[i] = "#notetype:Cloze"

(* ---- C26 ---- *)
\* format_cards returns normally: it saves its metadata
FormatReturns == pc = "f_meta" /\ pc' = "idle" /\ ret'.kind = "ok"

C26_Step ==
  FormatReturns =>
     /\ Val(ret'.val).cards_count = inv.n
     /\ Val(fs'[latest].cards.fmeta[inv.ct]).cards_count = inv.n

\* C26: the cards_count that format_cards returns and persists equals the
\* number of optimized cards it read and sent to the gateway.
C26_FormatCardCount == [][C26_Step]_vars

(* ---- C27 ---- *)
\* The metadata that optimize_cards persisted for the loop examined
SavedOptimization == Val(probe.out).what

RECURSIVE SumOf(_, _)
SumOf(stats, field) ==
  IF stats = <<>> THEN 0 ELSE Head(stats)[field] + SumOf(Tail(stats), field)

\* h hundredths is output / input rounded to two decimals: no two-decimal
\* number is nearer to the quotient
RoundedQuotient(h, output, input) ==
  /\ 2 * (h * input - 100 * output) <= input
  /\ 2 * (100 * output - h * input) <= input

\* C27: the optimization_ratio that optimize_cards persists (here in
\* hundredths) equals cards_output / cards_input rounded to two decimals
\* when cards_input > 0 (50 in and 62 out give 1.24) and 0 when cards_input
\* = 0; cards_input and cards_output equal the sums of the per-module input
\* and output counts of modules_stats.
C27_RatioComputation ==
  (probe.fn[1] = "optimize" /\ IsSome(probe.out) /\ Val(probe.out).kind = "returns") =>
     LET md == SavedOptimization IN
     /\ md.cards_input > 0 =>
           RoundedQuotient(md.optimization_ratio, md.cards_output, md.cards_input)
     /\ (md.cards_input = 50 /\ md.cards_output = 62) => md.optimization_ratio = 124
     /\ md.cards_input = 0 => md.optimization_ratio = 0
     /\ md.cards_input = SumOf(md.modules_stats, "input")
     /\ md.cards_output = SumOf(md.modules_stats, "output")

\* C27 witness: two modules of 25 cards each were optimized into 31 cards
\* each; the metadata counts 50 in, 62 out and the ratio 1.24.
C27_Witness ==
  /\ probe.fn[1] = "optimize"
  /\ Len(probe.input) = 2
  /\ IsSome(probe.out)
  /\ Val(probe.out).kind = "returns"
  /\ SavedOptimization.cards_input = 50
  /\ SavedOptimization.cards_output = 62
  /\ SavedOptimization.optimization_ratio = 124
  /\ Len(SavedOptimization.modules_stats) = 2

(* ---- C28 ---- *)
\* The entry of module m in the ledger file l (None: no file, or no entry)
ModuleDataIn(l, m) ==
  IF IsSome(l) /\ m \in DOMAIN Val(l).modules THEN Some(Val(l).modules[m]) ELSE None

StartedAtIn(l, m) ==
  IF IsSome(ModuleDataIn(l, m)) THEN Val(ModuleDataIn(l, m)).started_at ELSE None

\* The step writes the ledger without restarting it: a module status update
\* or a session-token update
WritesLedgerOn == probe.fn[1] = "ledger" /\ probe'.input.op \in {"update", "session"}

C28_Step ==
  WritesLedgerOn =>
     /\ \A m \in LedgerModules :
           \* a started_at once set keeps its value
           /\ IsSome(StartedAtIn(probe.out, m)) =>
                 StartedAtIn(probe'.out, m) = StartedAtIn(probe.out, m)
           \* it is set by the module's first transition to in_progress only
           /\ ~IsSome(StartedAtIn(probe.out, m)) =>
                 StartedAtIn(probe'.out, m) =
                    IF probe'.input.op = "update" /\ probe'.input.module = m
                       /\ probe'.input.status = "in_progress"
                    THEN Some(probe'.input.now) ELSE None
     /\ (probe'.input.op = "update" /\ probe'.input.status \in {"completed", "failed"}) =>
           Val(ModuleDataIn(probe'.out, probe'.input.module)).completed_at
              = Some(probe'.input.now)

\* C28: over any sequence of module status updates on one ledger without a
\* forced restart, a module's started_at is set at its first transition to
\* in_progress and keeps that value through every later update (retries
\* after a failure or an interruption included), and completed_at is set at
\* every transition to completed or failed.
C28_LedgerTimestamps == [][C28_Step]_vars

\* C28 witness: a module started at 1 and failed at 2 has been retried and
\* completed at 4; it still carries its first start.
C28_Witness ==
  /\ probe.fn[1] = "ledger"
  /\ probe.input = [op |-> "update", module |-> "themes", status |-> "completed", now |-> 4]
  /\ ModuleDataIn(probe.out, "themes")
        = Some([status |-> "completed", started_at |-> Some(1), completed_at |-> Some(4)])

(* ---- C29 ---- *)
\* The global status the claim derives from the module statuses
DerivedStatus(modules) ==
  LET has(s) == \E m \in DOMAIN modules : modules[m].status = s
  IN  IF DOMAIN modules /= {} /\ \A m \in DOMAIN modules : modules[m].status = "completed"
      THEN "completed"
      ELSE IF has("failed") THEN "failed"
      ELSE IF has("in_progress") THEN "in_progress"
      ELSE IF has("completed") THEN "in_progress"
      ELSE "pending"

\* C29: in every ledger state that a stage persists (the ledger written at
\* initialisation and the one written by a session-token update included),
\* the stored global status equals the value derived from the module
\* statuses: all completed gives completed; otherwise any failed gives
\* failed; otherwise any in_progress gives in_progress; otherwise any
\* completed gives in_progress; otherwise pending.
C29_DerivedGlobalStatus ==
  (probe.fn[1] = "ledger" /\ IsSome(probe.out)) =>
     Val(probe.out).status = DerivedStatus(Val(probe.out).modules)

(* ---- C30 ---- *)
\* The modules a ledger records as in_progress
InProgressIn(track) == {m \in ModuleSet : StatusIn(track, m) = "in_progress"}

\* The step sets a module to in_progress in an invocation of a stage that
\* keeps a ledger
StartsModule ==
  /\ pc /= "idle"
  /\ obs.op \in LedgerOps
  /\ Len(obs'.started) = Len(obs.started) + 1

C30_Step ==
  StartsModule =>
     LET n == Len(obs'.started)
         ledger == LedgerIn(fs', latest', obs.op, obs.ct)
     IN  /\ n <= Len(obs.work)
         /\ obs'.started[n] = obs.work[n]
         /\ StatusIn(ledger, obs.work[n]) = "in_progress"
         /\ \A i \in 1..(n - 1) :
               StatusIn(ledger, obs.work[i]) \in {"completed", "failed"}

C30_State ==
  \A r \in Runs, op \in LedgerOps, ct \in VALID_CARD_TYPES :
     Cardinality(InProgressIn(LedgerIn(fs, r, op, ct))) <= 1

\* C30: within one invocation of restructure_document, generate_cards or
\* optimize_cards the modules are started in the order of the resolved
\* module set, and a module is set to in_progress only after every module
\* earlier in that order has been persisted as completed or failed; hence in
\* every ledger state an observer can read, at most one module is
\* in_progress.
C30_ConsistentPrefix == []C30_State /\ [][C30_Step]_vars

(* ---- C31 ---- *)
\* restructure_document or generate_cards, on the session gateway, stands
\* between two modules (or after the last one) and the module it has just
\* left is completed in the ledger
ModuleJustCompleted ==
  /\ env.gateway = "session"
  /\ inv.op \in {"restructure", "generate"}
  /\ pc \in {"r_mark", "r_meta", "g_mark", "g_meta"}
  /\ inv.idx > 1
  /\ StatusIn(LedgerFile(inv.op, inv.ct), inv.sel[inv.idx - 1]) = "completed"

\* C31: in restructure_document and generate_cards with the session
\* gateway, after each module is completed (normal path, empty-input path
\* and retry path alike) the session token stored in the stage's ledger
\* equals the gateway's current session id whenever that id is non-null.
C31_SessionTokenKeptInLedger ==
  (ModuleJustCompleted /\ IsSome(gw.session_id)) =>
     /\ IsSome(LedgerFile(inv.op, inv.ct))
     /\ Val(LedgerFile(inv.op, inv.ct)).session_id = gw.session_id

(* ---- C32 ---- *)
\* The ledger has global status completed: it has modules and all of them
\* are completed
AllCompletedIn(track) ==
  /\ IsSome(track)
  /\ DOMAIN Val(track).modules /= {}
  /\ \A m \in DOMAIN Val(track).modules : Val(track).modules[m].status = "completed"

\* The modules a ledger records completed with a non-zero count
CompletedWithArtifacts(track) ==
  {m \in ModuleSet : StatusIn(track, m) = "completed" /\ EntryIn(track, m).count > 0}

\* C32: whenever (no invocation running) a restructure or generate ledger
\* has global status completed and the stage's metadata exists, the
\* metadata's modules_processed include every module that the ledger records
\* completed with a non-zero count, those completed by an earlier invocation
\* included.
C32_MetadataCoversResumedWork ==
  pc = "idle" =>
     \A r \in Runs, op \in ResumableOps, ct \in VALID_CARD_TYPES :
        (AllCompletedIn(LedgerIn(fs, r, op, ct)) /\ IsSome(MetadataIn(fs, r, op, ct))) =>
           CompletedWithArtifacts(LedgerIn(fs, r, op, ct))
              \subseteq SeqToSet(Val(MetadataIn(fs, r, op, ct)).processed)

(* ---- C33 ---- *)
\* C33: after any sequence of invocations of a stage (completed,
\* interrupted, aborted and re-run, resumed, forced), for every module that a
\* restructure, generate or optimize ledger records completed, the recorded
\* count equals the number of artifacts persisted for that module: no
\* artifact written by an earlier attempt survives beside the current ones.
C33_LedgerCountsMatchArtifacts ==
  pc = "idle" =>
  \A r \in Runs, op \in LedgerOps, ct \in VALID_CARD_TYPES, m \in ModuleSet :
     StatusIn(LedgerIn(fs, r, op, ct), m) = "completed" =>
        EntryIn(LedgerIn(fs, r, op, ct), m).count = ArtifactsIn(fs, r, op, ct)[m]


(* ---- C34 ---- *)
ModuleLoopPcs ==
  {"r_mark", "r_call", "r_save", "r_complete", "r_fail_ai", "r_fail_other", "r_meta",
   "g_mark", "g_empty", "g_call", "g_wait", "g_retry", "g_save", "g_complete",
   "g_sess", "g_fail_ai", "g_fail_other", "g_meta",
   "o_mark", "o_empty", "o_call", "o_save", "o_complete", "o_fail_ai",
   "o_fail_other", "o_meta"}

EndsFromLoop ==
  /\ pc \in ModuleLoopPcs
  /\ pc' = "idle"
  /\ ret'.kind /= "killed"

C34_Step ==
  EndsFromLoop => InProgressIn(LedgerIn(fs', latest', inv.op, inv.ct)) = {}

\* C34: when an invocation of restructure_document, generate_cards or
\* optimize_cards ends, whether it returns or raises any error from inside
\* the module loop, no module of its ledger has status in_progress.
C34_NoModuleLeftInProgress == [][C34_Step]_vars


(* ---- C35 ---- *)
RecordedRuns(store) == {x \in Runs : IsSome(store[x].analysis)}

C35_State ==
  (pc = "idle" /\ latest /= NoRun) => latest \in RecordedRuns(fs)

C35_Step ==
  (pc = "d_latest" /\ pc' = "idle" /\ ret'.kind = "ok" /\ latest = inv.aid) =>
     IF RecordedRuns(fs') = {} THEN latest' = NoRun
     ELSE /\ latest' \in RecordedRuns(fs')
          /\ \A x \in RecordedRuns(fs') : x <= latest'

\* C35: in every store state reachable by any sequence of analyze_document
\* (with or without force) and delete_analysis, interruptions between two
\* file writes included, the latest pointer, when present, names a run whose
\* directory and record exist; after the run it names is deleted it names the
\* most recently analysed remaining run, or is removed when none remains.
C35_LatestNeverDangles == []C35_State /\ [][C35_Step]_vars


(* ---- C36 ---- *)
\* A step of the removal done by a forced restructure_document or by
\* delete_restructuration (JsonRestructuredStorage.delete)
RemovesRestructuration ==
  /\ pc \in {"r_del_meta", "r_del_dirs"}
  /\ inv.op \in {"restructure", "delete_restructuration"}

LaterStageOutputs(store, r) == store[r].cards

C36_Step ==
  RemovesRestructuration =>
     \A r \in Runs :
        /\ LaterStageOutputs(fs', r) = LaterStageOutputs(fs, r)
        /\ fs'[r].analysis = fs[r].analysis

\* C36: a forced restructure_document or a delete_restructuration removes
\* only the restructuration metadata and the module item directories of the
\* run; the generated cards, optimized cards and formatted files of the same
\* run, with their metadata and ledgers, are unchanged.
C36_StageOutputsOwnedByOneStage == [][C36_Step]_vars


(* ---- C37 ---- *)
\* The analysis_id of a stage record agrees with that of the upstream record
\* it references, as long as that record is stored.
AgreesWith(meta, upstream) ==
  (IsSome(meta) /\ IsSome(upstream)) =>
     Val(meta).analysis_id = Val(upstream).analysis_id

\* C37: generate_cards, optimize_cards and format_cards read their inputs
\* from, and write their outputs to, the analysis run that holds the upstream
\* record they were invoked with: the analysis_id stored in a stage's
\* metadata equals the analysis_id of the upstream record it references, also
\* when the document has been analysed again since.
C37_RunConsistency ==
  \A r \in Runs, ct \in VALID_CARD_TYPES :
     /\ IsSome(fs[r].cards.gmeta[ct]) =>
           AgreesWith(fs[r].cards.gmeta[ct],
                      RFindById(Val(fs[r].cards.gmeta[ct]).restructuration_id))
     /\ IsSome(fs[r].cards.ometa[ct]) =>
           AgreesWith(fs[r].cards.ometa[ct],
                      GFindById(Val(fs[r].cards.ometa[ct]).generation_id))
     /\ IsSome(fs[r].cards.fmeta[ct]) =>
           AgreesWith(fs[r].cards.fmeta[ct],
                      OFindById(Val(fs[r].cards.fmeta[ct]).optimization_id))


(* ---- C38 ---- *)
\* The latest call resumed a session
ResumedSession == gw.last.resume

\* C38: with the single shared session gateway, a request that a stage issues
\* on behalf of document D (the send_message calls without attachment of
\* generate, optimize and format included) is never sent by resuming a
\* session that was established with, or injected for, the attachment of a
\* different document.
C38_NoSessionSharedAcrossDocuments ==
  (IsSome(probe.doc) /\ IsSome(ResumedSession)) =>
     probe.born[Val(ResumedSession)] \in {Val(probe.doc), NoAttachment}


(* ---- C39 ---- *)
\* Both invocations have made their calls and none is between its read and
\* its write
BothFinished ==
  \A p \in Invocations : probe.ncalls[p] = MaxCalls /\ probe.call[p] = NoUpdate

\* The modules that invocation p alone wrote
WroteAlone(p) ==
  {m \in LedgerModules :
     /\ probe.wrote[p][m] /= ""
     /\ \A q \in Invocations \ {p} : probe.wrote[q][m] = ""}

\* C39: when two invocations that write the same ledger run concurrently,
\* every module status that either of them wrote with update_module_status is
\* present in the final ledger: an update of one module never overwrites or
\* drops the status that the other invocation recorded for another module.
C39_NoLostLedgerUpdate ==
  BothFinished =>
     \A p \in Invocations : \A m \in WroteAlone(p) :
        Val(probe.file).modules[m].status = probe.wrote[p][m]


(* ---- C40 ---- *)
\* The lines that call n returned
ReturnedLines(n) == IF IsSome(probe.returned[n]) THEN Val(probe.returned[n]) ELSE <<>>

\* C40: on the interactive gateway each send_message returns only output
\* that the process produced in answer to that call's prompt: output of an
\* earlier prompt that the reader thread queued after the earlier call gave
\* up waiting is never returned as the answer, or as part of the answer, to a
\* later prompt.
C40_ResponsesAreNotMixed ==
  \A n \in 1..MaxPrompts :
     \A i \in 1..Len(ReturnedLines(n)) : ReturnedLines(n)[i].of = n

====
